---- MODULE Spec2Model ----
(***************************************************************************)
(* Model of the intelliflow-supportflow message pipeline:                  *)
(* Orchestrator.process_message and the agents, services and repositories  *)
(* it drives.  One request (a "run") is a coroutine; every await of the    *)
(* source is one step of the run.  The store is the three tables the       *)
(* pipeline writes: tickets, audit_logs, token_usage.                      *)
(*                                                                         *)
(* Conventions.                                                            *)
(*  - random.random() is an integer percentage 0..99 (0.3 is 30).          *)
(*  - money is in micro-USD, token counts are multiples of 1000.           *)
(*  - a message is a sequence of words; lower() lower-cases a word and a  *)
(*    keyword is "in" the text when it is a substring of one of its words. *)
(*  - a store statement that raises leaves the table unchanged.  Inserts   *)
(*    into audit_logs are taken to succeed; inserts and updates of tickets *)
(*    and token_usage, and the cost query, may raise.                      *)
(***************************************************************************)
EXTENDS Integers, Sequences, FiniteSets, TLC

\* ---------------------------------------------------------------- bounds
MaxRuns == 1
MaxWords == 2

Runs == 1..MaxRuns

\* ------------------------------------------------------------ enumerations
None == "None"

POSITIVE == "positive"
NEGATIVE == "negative"
QUERY == "query"
MessageCategory == {POSITIVE, NEGATIVE, QUERY}

OPEN == "open"
IN_PROGRESS == "in_progress"
RESOLVED == "resolved"
CLOSED == "closed"
ESCALATED == "escalated"
TicketStatus == {OPEN, IN_PROGRESS, RESOLVED, CLOSED, ESCALATED}

CRITICAL == 1
HIGH == 2
MEDIUM == 3
LOW == 4
MINIMAL == 5
TicketPriority == {CRITICAL, HIGH, MEDIUM, LOW, MINIMAL}

CLASSIFY == "classify"
ROUTE == "route"
RESPOND == "respond"

\* ------------------------------------------------------- fault injection
ChaosThreshold == 30

Draws == {0, 29, 30, 99}

failure_messages ==
    { "Simulated network timeout",
      "Service temporarily unavailable",
      "Database connection dropped",
      "Rate limit exceeded",
      "Internal processing error" }

maybe_trigger_chaos_ignores_flag(chaos_mode, draw) == draw < ChaosThreshold

\* _maybe_trigger_chaos raises iff this holds for the value drawn.
maybe_trigger_chaos(chaos_mode, draw) == chaos_mode /\ draw < ChaosThreshold

ChaosError(component, msg) ==
    [kind |-> "ChaosError", component |-> component, text |-> msg]

\* What one attempt of LLMClient.complete raises
LLMError ==
    [kind |-> "LLMError", component |-> None, text |-> "LLM request failed"]

\* What the retry decorator of complete raises once the attempts are used
\* up: tenacity's RetryError, made from the last attempt (no reraise=True)
RetryError ==
    [kind |-> "RetryError", component |-> None,
     text |-> "RetryError[<Future raised LLMError>]"]

DatabaseError(text) ==
    [kind |-> "DatabaseError", component |-> None, text |-> text]

ClassificationError(text) ==
    [kind |-> "ClassificationError", component |-> None, text |-> text]

NoError == [kind |-> None, component |-> None, text |-> None]

\* ------------------------------------------------------------ the agents
positive_handler == "positive_handler"
negative_handler == "negative_handler"
query_handler == "query_handler"
classifier == "classifier"
orchestrator == "orchestrator"

handlers_swapped ==
    [c \in MessageCategory |->
        CASE c = POSITIVE -> negative_handler
          [] c = NEGATIVE -> positive_handler
          [] c = QUERY -> query_handler]

\* Orchestrator.handlers: the handler registered for each category.
handlers ==
    [c \in MessageCategory |->
        CASE c = POSITIVE -> positive_handler
          [] c = NEGATIVE -> negative_handler
          [] c = QUERY -> query_handler]

ESCALATION_KEYWORDS ==
    << "fraud", "unauthorized", "stolen", "lawsuit", "lawyer", "attorney",
       "legal", "sue", "compensation", "report", "authorities", "police",
       "security breach", "identity theft" >>

high_priority_keywords ==
    << "urgent", "immediately", "asap", "emergency", "cannot access",
       "locked out", "missing money", "large amount" >>

higher_priority_keywords ==
    << "how do i transfer", "wire transfer", "international", "investment",
       "mortgage", "loan application", "account opening" >>

\* str.lower on the words the model writes in other than lower case.
lower(word) ==
    CASE word = "POSITIVE" -> "positive"
      [] word = "Negative" -> "negative"
      [] word = "FRAUD" -> "fraud"
      [] word = "Wire Transfer" -> "wire transfer"
      [] word = "URGENT" -> "urgent"
      [] OTHER -> word

\* message.lower(), word by word
message_lower(message) == [i \in DOMAIN message |-> lower(message[i])]

\* The phrases that are substrings of a lower-case word of the model: the
\* word itself, and "sue" inside "issue".
SubstringsOf(word) == IF word = "issue" THEN {"issue", "sue"} ELSE {word}

\* keyword in message_lower
Occurs(keyword, text) == \E i \in DOMAIN text : keyword \in SubstringsOf(text[i])

\* Index of the first keyword of the list the message contains, 0 if none.
FirstMatch(keywords, message) ==
    LET hits == {i \in 1..Len(keywords) :
                    Occurs(keywords[i], message_lower(message))}
    IN IF hits = {} THEN 0 ELSE CHOOSE i \in hits : \A j \in hits : i <= j

\* NegativeHandler._check_escalation
check_escalation(message) ==
    LET i == FirstMatch(ESCALATION_KEYWORDS, message)
    IN IF i > 0
       THEN [needed |-> TRUE, reason |-> ESCALATION_KEYWORDS[i]]
       ELSE [needed |-> FALSE, reason |-> None]

negative_determine_priority_medium_default(message, escalation_needed) ==
    IF escalation_needed THEN CRITICAL
    ELSE IF FirstMatch(high_priority_keywords, message) > 0 THEN HIGH
    ELSE MEDIUM

\* NegativeHandler._determine_priority
negative_determine_priority(message, escalation_needed) ==
    IF escalation_needed THEN CRITICAL
    ELSE IF FirstMatch(high_priority_keywords, message) > 0 THEN HIGH
    ELSE HIGH

query_determine_priority_exact_case(message) ==
    IF \E i \in 1..Len(higher_priority_keywords) :
           Occurs(higher_priority_keywords[i], message)
    THEN MEDIUM ELSE LOW

\* QueryHandler._determine_priority
query_determine_priority(message) ==
    IF FirstMatch(higher_priority_keywords, message) > 0 THEN MEDIUM ELSE LOW

\* What handler.process returns once its model call returned `content`.
HandlerResponse(handler, message, content) ==
    CASE handler = positive_handler ->
            [response |-> content, priority |-> MINIMAL,
             requires_escalation |-> FALSE, escalation_reason |-> None]
      [] handler = negative_handler ->
            LET esc == check_escalation(message)
            IN [response |-> content,
                priority |-> negative_determine_priority(message, esc.needed),
                requires_escalation |-> esc.needed,
                escalation_reason |-> esc.reason]
      [] handler = query_handler ->
            [response |-> content,
             priority |-> query_determine_priority(message),
             requires_escalation |-> FALSE, escalation_reason |-> None]

\* ------------------------------------------------------ provider replies
\* The text the provider returns.  For the classifier it is read as JSON:
\* json says whether json.loads accepts it, category is the value of the
\* "category" key ("" when the key is absent), confidence is the value of
\* the "confidence" key in percent (has_confidence FALSE when absent).
\* typed is FALSE when json.loads accepts the text but the value is not an
\* object, or the category is not a string, or the confidence not a number.
Reply(text, json, category, has_confidence, confidence) ==
    [text |-> text, json |-> json, category |-> category,
     has_confidence |-> has_confidence, confidence |-> confidence,
     typed |-> TRUE]

Untyped(reply) == [reply EXCEPT !.typed = FALSE]

AcceptedReplies ==
    { Reply("json-positive", TRUE, "POSITIVE", TRUE, 90),
      Reply("json-negative", TRUE, NEGATIVE, FALSE, 0),
      Reply("json-query", TRUE, QUERY, TRUE, 150),
      Reply("json-query-below", TRUE, QUERY, TRUE, -20) }

RejectedReplies ==
    { Reply("json-other", TRUE, "spam", TRUE, 90),
      Reply("json-no-category", TRUE, "", TRUE, 90),
      Untyped(Reply("json-list", TRUE, "", FALSE, 0)),
      Untyped(Reply("json-null-confidence", TRUE, POSITIVE, TRUE, 0)),
      Reply("not-json", FALSE, "", FALSE, 0) }

ClassifierReplies == AcceptedReplies \cup RejectedReplies

HandlerReplies == { Reply("reply", FALSE, "", FALSE, 0) }

Min(a, b) == IF a < b THEN a ELSE b
Max(a, b) == IF a > b THEN a ELSE b

parse_response_defaults_category(content) ==
    [ok |-> TRUE,
     category |-> IF content.json /\ lower(content.category) \in MessageCategory
                  THEN lower(content.category) ELSE QUERY,
     confidence |-> Max(0, Min(100, IF content.has_confidence
                                    THEN content.confidence ELSE 50)),
     reasoning |-> content.text]

\* ClassifierAgent._parse_response
parse_response(content) ==
    IF ~content.json
    THEN [ok |-> FALSE,
          error |-> ClassificationError("Failed to parse classification response")]
    ELSE IF ~content.typed \/ lower(content.category) \notin MessageCategory
    THEN [ok |-> FALSE, error |-> ClassificationError("Classification failed")]
    ELSE [ok |-> TRUE,
          category |-> lower(content.category),
          confidence |-> Max(0, Min(100,
                             IF content.has_confidence THEN content.confidence
                                                       ELSE 50)),
          reasoning |-> content.text]

\* Settings: the configured model (openai_model, the provider's default)
DefaultSettings == [active_model |-> "gpt-4o-mini", api_key |-> "sk-valid"]

\* A model the pricing table is not seeded with.
Models == {"gpt-4o-mini", "ft-custom"}

\* LLMResponse as LLMClient.complete builds it
LLMResponse(content, model) ==
    [content |-> content, model |-> model,
     input_tokens |-> 1000, output_tokens |-> 1000, cached_tokens |-> 0]

NoResponse == [content |-> None]

\* ------------------------------------------------------------ the store
EmptyMeta == [k \in {} |-> None]

\* Ticket(...) with the dataclass defaults; the timestamps are left out.
Ticket(id, customer_id, customer_message, category) ==
    [id |-> id, customer_id |-> customer_id,
     customer_message |-> customer_message, category |-> category,
     status |-> OPEN, priority |-> MEDIUM, agent_response |-> None,
     handler_agent |-> None, metadata |-> EmptyMeta, resolved_at |-> None]

NoTicket == [id |-> 0]

\* Ticket.to_dict: the column values of a ticket object at this moment.
to_dict(t) ==
    [id |-> t.id, customer_id |-> t.customer_id,
     customer_message |-> t.customer_message, category |-> t.category,
     status |-> t.status, priority |-> t.priority,
     agent_response |-> t.agent_response, handler_agent |-> t.handler_agent,
     metadata |-> t.metadata, resolved_at |-> t.resolved_at]

repo_create_dropped(table, t) == table

\* TicketRepository.create: INSERT INTO tickets
repo_create(table, t) == (t.id :> to_dict(t)) @@ table

repo_update_lost(table, t) == table

repo_update_every_row(table, t) ==
    [i \in DOMAIN table |->
        [table[i] EXCEPT !.customer_message = to_dict(t).customer_message,
                         !.category = to_dict(t).category,
                         !.status = to_dict(t).status,
                         !.priority = to_dict(t).priority,
                         !.agent_response = to_dict(t).agent_response,
                         !.handler_agent = to_dict(t).handler_agent,
                         !.metadata = to_dict(t).metadata,
                         !.resolved_at = to_dict(t).resolved_at]]

repo_update_stamps_resolved(table, t) ==
    IF t.id \in DOMAIN table
    THEN [table EXCEPT ![t.id] =
            [@ EXCEPT !.customer_message = to_dict(t).customer_message,
                      !.category = to_dict(t).category,
                      !.status = to_dict(t).status,
                      !.priority = to_dict(t).priority,
                      !.agent_response = to_dict(t).agent_response,
                      !.handler_agent = to_dict(t).handler_agent,
                      !.metadata = to_dict(t).metadata,
                      !.resolved_at = IF to_dict(t).status = RESOLVED
                                      THEN "utcnow" ELSE to_dict(t).resolved_at]]
    ELSE table

repo_update_status_only(table, t) ==
    IF t.id \in DOMAIN table
    THEN [table EXCEPT ![t.id] = [@ EXCEPT !.status = to_dict(t).status]]
    ELSE table

\* TicketRepository.update: UPDATE tickets SET ... WHERE id = ?
repo_update(table, t) ==
    IF t.id \in DOMAIN table
    THEN [table EXCEPT ![t.id] =
            [@ EXCEPT !.customer_message = to_dict(t).customer_message,
                      !.category = to_dict(t).category,
                      !.status = to_dict(t).status,
                      !.priority = to_dict(t).priority,
                      !.agent_response = to_dict(t).agent_response,
                      !.handler_agent = to_dict(t).handler_agent,
                      !.metadata = to_dict(t).metadata,
                      !.resolved_at = to_dict(t).resolved_at]]
    ELSE table

NoScore == -1

\* AuditLog as AuditService.log_action builds it
AuditLog(ticket_id, agent_name, action, output, score, success, error) ==
    [ticket_id |-> ticket_id, agent_name |-> agent_name, action |-> action,
     output_summary |-> output, confidence_score |-> score,
     success |-> success, error_message |-> error]

\* model_pricing as seeded by the migrations, micro-USD per 1000 tokens
DEFAULT_MODEL_PRICING ==
    [m \in {"gpt-4o-mini"} |-> [input |-> 150, output |-> 600, cached |-> 75]]

\* The prices an operator may put into model_pricing later on.
Rates == { [input |-> 150, output |-> 600, cached |-> 75],
           [input |-> 300, output |-> 1200, cached |-> 150] }

\* UsageRepository.upsert_model_pricing: INSERT OR REPLACE INTO model_pricing
upsert_model_pricing(table, model, rate) ==
    [m \in DOMAIN table \cup {model} |-> IF m = model THEN rate ELSE table[m]]

\* TokenTracker._get_pricing: the cache after the lookup of model_name
get_pricing(cache, table, model_name) ==
    IF model_name \notin DOMAIN cache /\ model_name \in DOMAIN table
    THEN upsert_model_pricing(cache, model_name, table[model_name])
    ELSE cache

TokenUsage_charges_unpriced(ticket_id, agent_name, response, cache) ==
    [ticket_id |-> ticket_id, agent_name |-> agent_name,
     model_name |-> response.model,
     input_tokens |-> response.input_tokens,
     output_tokens |-> response.output_tokens,
     cached_tokens |-> response.cached_tokens,
     input_cost_usd |-> (response.input_tokens \div 1000) * 150,
     output_cost_usd |-> (response.output_tokens \div 1000) * 600]

\* TokenTracker.track_usage: the usage row of one response, priced from the
\* cache as _get_pricing left it
TokenUsage(ticket_id, agent_name, response, cache) ==
    LET priced == response.model \in DOMAIN cache
        rate == cache[response.model]
    IN [ticket_id |-> ticket_id, agent_name |-> agent_name,
        model_name |-> response.model,
        input_tokens |-> response.input_tokens,
        output_tokens |-> response.output_tokens,
        cached_tokens |-> response.cached_tokens,
        input_cost_usd |->
            IF priced
            THEN ((response.input_tokens - response.cached_tokens) \div 1000)
                     * rate.input
                 + (response.cached_tokens \div 1000) * rate.cached
            ELSE 0,
        output_cost_usd |->
            IF priced THEN (response.output_tokens \div 1000) * rate.output
                      ELSE 0]

RECURSIVE SumCost(_, _)
SumCost(rows, ticket_id) ==
    IF rows = << >> THEN 0
    ELSE (IF Head(rows).ticket_id = ticket_id
          THEN Head(rows).input_cost_usd + Head(rows).output_cost_usd
          ELSE 0) + SumCost(Tail(rows), ticket_id)

\* UsageRepository.get_total_cost_by_ticket
get_total_cost_by_ticket(rows, ticket_id) == SumCost(rows, ticket_id)

\* ActionTracker
ActionTracker(agent_name, action) ==
    [agent_name |-> agent_name, action |-> action, output_summary |-> None,
     success |-> TRUE, error_message |-> None]

set_output(tr, output_summary) == [tr EXCEPT !.output_summary = output_summary]

set_error_keeps_success(tr, error) ==
    [tr EXCEPT !.error_message = error, !.output_summary = "Error"]

set_error(tr, error) ==
    [tr EXCEPT !.success = FALSE, !.error_message = error,
               !.output_summary = "Error"]

NoTracker == [agent_name |-> None]

\* ------------------------------------------------------------- the state
VARIABLES
    tickets,            \* table tickets: id -> row
    audit_logs,         \* table audit_logs, in insertion order
    token_usage,        \* table token_usage, in insertion order
    pc,                 \* where each call of the caller stands
    args,               \* process_message(customer_id, message, chaos_mode)
    ticket,             \* the Ticket object process_message holds
    classification,     \* the ClassificationResult it holds
    handler,            \* name of the handler it selected
    handler_response,   \* the HandlerResponse it holds
    llm_response,       \* the response inside call_llm
    tracker,            \* the ActionTracker inside call_llm
    exc,                \* the exception in flight
    outcome,            \* what the caller received
    trace,              \* history: the operations of the call so far
    writes,             \* history: the ticket rows the call has written
    auditAtDraw,        \* history: the ticket's trail at the last fault draw
    settings,           \* the Settings the process runs with
    model_pricing,      \* table model_pricing: model -> prices
    pricing_cache,      \* TokenTracker._pricing_cache
    client,             \* a call of LLMClient.complete under its retry decorator
    connection,         \* the DatabaseConnection under concurrent requests
    direct              \* direct calls of the services: each caller's frame

vars == << tickets, audit_logs, token_usage, pc, args, ticket,
           classification, handler, handler_response, llm_response, tracker,
           exc, outcome, trace, writes, auditAtDraw, settings, model_pricing,
           pricing_cache, client, connection, direct >>

\* What process_message and its agents never write.
beyond == << settings, model_pricing, client, connection, direct >>

store == << tickets, audit_logs, token_usage >>

Ev(op, who, what) == [op |-> op, who |-> who, what |-> what]

\* AuditRepository.get_by_ticket
Trail(ticket_id) == SelectSeq(audit_logs, LAMBDA e : e.ticket_id = ticket_id)

UsageOf(ticket_id) == SelectSeq(token_usage, LAMBDA u : u.ticket_id = ticket_id)

NoArgs == [customer_id |-> None, message |-> << >>, chaos_mode |-> FALSE]
NoClassification == [ok |-> FALSE]
NoHandlerResponse == [response |-> None]
NoOutcome == [status |-> "none"]

\* LLMClient.complete has not been called directly.
IdleClient ==
    [state |-> "idle", attempt_number |-> 0, contacts |-> 0, waited |-> 0,
     answers |-> << >>, result |-> NoError]

\* The coroutines that use the one DatabaseConnection of the process.
MaxCoroutines == 3
Coroutines == 1..MaxCoroutines

\* DatabaseConnection.__init__ after initialize(): nobody holds _lock, and
\* pending, the number of statements the aiosqlite connection has run and
\* not committed, is zero.  The
\* field since is history: what the aiosqlite connection has been asked to
\* do since the lock was last taken.
IdleConnection ==
    [locked |-> FALSE, waiters |-> << >>,
     at |-> [c \in Coroutines |-> "idle"],
     op |-> [c \in Coroutines |-> None],
     pending |-> 0, since |-> << >>]

\* The callers that use TicketService, the repositories and PolicyService
\* directly, and the frame of a caller that has no call in progress.
MaxCallers == 2
Callers == 1..MaxCallers

NoDirect == [op |-> None, at |-> "idle"]

Customers == {"cust-1"}

\* The messages the callers of the pipeline send, as sequences of words.
Messages == { << >>, << "FRAUD" >>, << "Wire Transfer" >> }

\* No request has been made yet; callers is the set of the calls to come.
BeforeCalls(callers) ==
    /\ tickets = [i \in {} |-> NoTicket]
    /\ audit_logs = << >>
    /\ token_usage = << >>
    /\ pc = [r \in callers |-> "idle"]
    /\ args = [r \in callers |-> NoArgs]
    /\ ticket = [r \in callers |-> NoTicket]
    /\ classification = [r \in callers |-> NoClassification]
    /\ handler = [r \in callers |-> None]
    /\ handler_response = [r \in callers |-> NoHandlerResponse]
    /\ llm_response = [r \in callers |-> NoResponse]
    /\ tracker = [r \in callers |-> NoTracker]
    /\ exc = [r \in callers |-> NoError]
    /\ outcome = [r \in callers |-> NoOutcome]
    /\ trace = [r \in callers |-> << >>]
    /\ writes = [r \in callers |-> << >>]
    /\ auditAtDraw = [r \in callers |-> << >>]
    /\ model_pricing = DEFAULT_MODEL_PRICING
    /\ pricing_cache = [m \in {} |-> None]
    /\ client = IdleClient
    /\ connection = IdleConnection
    /\ direct = [d \in Callers |-> NoDirect]

NoCalls == BeforeCalls(Runs)

Init == NoCalls /\ settings = DefaultSettings

\* ----------------------------------------------------------- the caller
\* The caller (the chat front end, the CLI, a test) issues one call after
\* the other; the frame of a finished call is dropped when the next starts.
CanStart(r) ==
    /\ pc[r] = "idle"
    /\ \A q \in Runs : q < r => pc[q] \in {"done", "finished"}

Fresh(default, r, v) == [q \in Runs |-> IF q = r THEN v ELSE default]

Started(r, at) ==
    [q \in Runs |-> IF q = r THEN at
                    ELSE IF pc[q] = "done" THEN "finished" ELSE pc[q]]

Log(r, evs) == trace' = [trace EXCEPT ![r] = @ \o evs]

Raise(r, e) == exc' = [exc EXCEPT ![r] = e]

Goto(r, at) == pc' = [pc EXCEPT ![r] = at]

\* process_message is called; TicketService.create_ticket inserts the row
\* with the placeholder category.  A failing insert raises outside the try.
CreateTicket(r) ==
    /\ CanStart(r)
    /\ \E c \in Customers, m \in Messages, cm \in BOOLEAN, ok \in BOOLEAN :
          LET t == Ticket(r, c, m, QUERY)
          IN /\ args' = Fresh(NoArgs, r,
                          [customer_id |-> c, message |-> m, chaos_mode |-> cm])
             /\ IF ok
                THEN /\ tickets' = repo_create(tickets, t)
                     /\ ticket' = Fresh(NoTicket, r, t)
                     /\ writes' = Fresh(<< >>, r, << to_dict(t) >>)
                     /\ trace' = Fresh(<< >>, r,
                                   << Ev("insert", "ticket_service", "tickets") >>)
                     /\ outcome' = Fresh(NoOutcome, r, NoOutcome)
                     /\ pc' = Started(r, "chaos_TicketService")
                ELSE /\ tickets' = tickets
                     /\ ticket' = Fresh(NoTicket, r, NoTicket)
                     /\ writes' = Fresh(<< >>, r, << >>)
                     /\ trace' = Fresh(<< >>, r,
                            << Ev("insert_failed", "ticket_service", "tickets") >>)
                     /\ outcome' = Fresh(NoOutcome, r,
                            [status |-> "raised",
                             error |-> DatabaseError("Failed to create ticket")])
                     /\ pc' = Started(r, "done")
    /\ classification' = Fresh(NoClassification, r, NoClassification)
    /\ handler' = Fresh(None, r, None)
    /\ handler_response' = Fresh(NoHandlerResponse, r, NoHandlerResponse)
    /\ llm_response' = Fresh(NoResponse, r, NoResponse)
    /\ tracker' = Fresh(NoTracker, r, NoTracker)
    /\ exc' = Fresh(NoError, r, NoError)
    /\ auditAtDraw' = Fresh(<< >>, r, << >>)
    /\ UNCHANGED << audit_logs, token_usage >>
    /\ UNCHANGED << pricing_cache, beyond >>

\* A direct call of Orchestrator._maybe_trigger_chaos, as the tests make it.
DirectChaosCall(r) ==
    /\ CanStart(r)
    /\ \E cm \in BOOLEAN, d \in Draws, m \in failure_messages :
          /\ args' = Fresh(NoArgs, r,
                       [customer_id |-> None, message |-> << >>, chaos_mode |-> cm])
          /\ outcome' = Fresh(NoOutcome, r,
                IF maybe_trigger_chaos(cm, d)
                THEN [status |-> "raised", error |-> ChaosError("TestComponent", m)]
                ELSE [status |-> "returned", direct |-> TRUE])
    /\ pc' = Started(r, "done")
    /\ trace' = Fresh(<< >>, r, << Ev("chaos_check", "TestComponent", "") >>)
    /\ ticket' = Fresh(NoTicket, r, NoTicket)
    /\ writes' = Fresh(<< >>, r, << >>)
    /\ classification' = Fresh(NoClassification, r, NoClassification)
    /\ handler' = Fresh(None, r, None)
    /\ handler_response' = Fresh(NoHandlerResponse, r, NoHandlerResponse)
    /\ llm_response' = Fresh(NoResponse, r, NoResponse)
    /\ tracker' = Fresh(NoTracker, r, NoTracker)
    /\ exc' = Fresh(NoError, r, NoError)
    /\ auditAtDraw' = Fresh(<< >>, r, << >>)
    /\ UNCHANGED store
    /\ UNCHANGED << pricing_cache, beyond >>

\* ------------------------------------------------------- process_message
\* self._maybe_trigger_chaos(component, chaos_mode) at one place of the body
ChaosCheck(r, at, component, next) ==
    /\ pc[r] = at
    /\ auditAtDraw' = [auditAtDraw EXCEPT ![r] = Trail(ticket[r].id)]
    /\ \E d \in Draws, m \in failure_messages :
          IF maybe_trigger_chaos(args[r].chaos_mode, d)
          THEN Raise(r, ChaosError(component, m)) /\ Goto(r, "except")
          ELSE exc' = exc /\ Goto(r, next)
    /\ Log(r, << Ev("chaos_check", component, "") >>)
    /\ UNCHANGED << store, args, ticket, classification, handler,
                    handler_response, llm_response, tracker, outcome, writes >>
    /\ UNCHANGED << pricing_cache, beyond >>

ChaosTicketService(r) ==
    ChaosCheck(r, "chaos_TicketService", "TicketService", "chaos_Classifier")

ChaosClassifier(r) ==
    ChaosCheck(r, "chaos_Classifier", "Classifier", "call_llm")

ChaosRouter(r) == ChaosCheck(r, "chaos_Router", "Router", "route")

ChaosHandler(r) ==
    ChaosCheck(r, "chaos_Handler", handler[r], "handler_process")

ChaosDatabase(r) ==
    ChaosCheck(r, "chaos_Database", "Database", "update_final")

\* The agent whose call_llm the run is in.
CurrentAgent(r) == IF classification[r].ok THEN handler[r] ELSE classifier

Replies(agent) ==
    IF agent = classifier THEN ClassifierReplies ELSE HandlerReplies

\* ClassifierAgent.process starts with its call_llm; a handler's process has
\* started before.
Entered(agent) ==
    IF agent = classifier THEN << Ev("process", agent, "") >> ELSE << >>

\* BaseAgent.call_llm: track_action is entered and llm_client.complete is
\* awaited; it returns a response, one of replies, or raises what is left of
\* its attempts.
CallLLMCompleteWith(r, replies) ==
    /\ pc[r] = "call_llm"
    /\ LET agent == CurrentAgent(r)
           tr == ActionTracker(agent,
                               IF agent = classifier THEN CLASSIFY ELSE RESPOND)
       IN /\ \/ \E content \in replies :
                   /\ llm_response' =
                         [llm_response EXCEPT
                             ![r] = LLMResponse(content, settings.active_model)]
                   /\ tracker' = [tracker EXCEPT ![r] = tr]
                   /\ exc' = exc
                   /\ Log(r, Entered(agent) \o << Ev("llm", agent, "") >>)
                   /\ Goto(r, "track_usage")
             \/ /\ llm_response' = llm_response
                /\ tracker' = [tracker EXCEPT ![r] = set_error(tr, RetryError.text)]
                /\ Raise(r, RetryError)
                /\ Log(r, Entered(agent) \o << Ev("llm", agent, ""),
                                               Ev("llm_raised", agent, "") >>)
                /\ Goto(r, "flush")
    /\ UNCHANGED << store, args, ticket, classification, handler,
                    handler_response, outcome, writes, auditAtDraw >>
    /\ UNCHANGED << pricing_cache, beyond >>

CallLLMComplete(r) == CallLLMCompleteWith(r, Replies(CurrentAgent(r)))

\* BaseAgent.call_llm: token_tracker.track_usage, then tracker.set_output
CallLLMTrackUsage(r) ==
    /\ pc[r] = "track_usage"
    /\ pricing_cache' =
          get_pricing(pricing_cache, model_pricing, llm_response[r].model)
    /\ LET agent == tracker[r].agent_name
       IN \/ /\ token_usage' = Append(token_usage,
                    TokenUsage(ticket[r].id, agent, llm_response[r],
                               pricing_cache'))
             /\ tracker' = [tracker EXCEPT
                    ![r] = set_output(@, llm_response[r].content.text)]
             /\ exc' = exc
             /\ Log(r, << Ev("insert", agent, "token_usage") >>)
          \/ /\ token_usage' = token_usage
             /\ tracker' = [tracker EXCEPT
                    ![r] = set_error(@, "Failed to create token usage")]
             /\ Raise(r, DatabaseError("Failed to create token usage"))
             /\ Log(r, << Ev("insert_failed", agent, "token_usage") >>)
    /\ Goto(r, "flush")
    /\ UNCHANGED << tickets, audit_logs, args, ticket, classification, handler,
                    handler_response, llm_response, outcome, writes,
                    auditAtDraw >>
    /\ UNCHANGED beyond

after_call_llm_retries(agent, raised) ==
    IF raised THEN "call_llm"
    ELSE IF agent = classifier THEN "parse" ELSE "respond"

\* Where a run goes when track_action ends: the exception of the body is
\* re-raised to process_message, else the agent goes on with the response.
after_call_llm(agent, raised) ==
    IF raised THEN "except"
    ELSE IF agent = classifier THEN "parse" ELSE "respond"

\* AuditService.track_action, the finally clause: one entry from the tracker;
\* an exception of the body goes on to the caller of call_llm.
CallLLMFlush(r) ==
    /\ pc[r] = "flush"
    /\ LET tr == tracker[r]
       IN /\ audit_logs' = Append(audit_logs,
                AuditLog(ticket[r].id, tr.agent_name, tr.action,
                         tr.output_summary, NoScore, tr.success,
                         tr.error_message))
          /\ Log(r, << Ev("audit", tr.agent_name, tr.action) >>)
          /\ Goto(r, after_call_llm(tr.agent_name, exc[r] # NoError))
    /\ UNCHANGED << tickets, token_usage, args, ticket, classification,
                    handler, handler_response, llm_response, tracker, exc,
                    outcome, writes, auditAtDraw >>
    /\ UNCHANGED << pricing_cache, beyond >>

classification_entry_unscored(ticket_id, result) ==
    AuditLog(ticket_id, classifier, CLASSIFY, result.category, NoScore, TRUE,
             None)

\* ClassifierAgent.process: the entry its log_action call writes
classification_entry(ticket_id, result) ==
    AuditLog(ticket_id, classifier, CLASSIFY, result.category,
             result.confidence, TRUE, None)

\* ClassifierAgent.process after call_llm returned: parse the reply, then
\* log the classification with its confidence.
ClassifierResult(r) ==
    /\ pc[r] = "parse"
    /\ LET res == parse_response(llm_response[r].content)
       IN IF res.ok
          THEN /\ audit_logs' = Append(audit_logs,
                     classification_entry(ticket[r].id, res))
               /\ classification' = [classification EXCEPT ![r] = res]
               /\ exc' = exc
               /\ Log(r, << Ev("audit", classifier, CLASSIFY) >>)
               /\ Goto(r, "update_classification")
          ELSE /\ audit_logs' = audit_logs
               /\ classification' = classification
               /\ Raise(r, res.error)
               /\ Log(r, << Ev("parse_failed", classifier, "") >>)
               /\ Goto(r, "except")
    /\ UNCHANGED << tickets, token_usage, args, ticket, handler,
                    handler_response, llm_response, tracker, outcome, writes,
                    auditAtDraw >>
    /\ UNCHANGED << pricing_cache, beyond >>

\* ticket_service.update_ticket(ticket): the statement runs or raises.
UpdateTicket(r, t, next) ==
    \/ /\ tickets' = repo_update(tickets, t)
       /\ writes' = [writes EXCEPT ![r] = Append(@, to_dict(t))]
       /\ exc' = exc
       /\ Log(r, << Ev("update", "ticket_service", "tickets") >>)
       /\ Goto(r, next)
    \/ /\ tickets' = tickets
       /\ writes' = writes
       /\ Raise(r, DatabaseError("Failed to update ticket"))
       /\ Log(r, << Ev("update_failed", "ticket_service", "tickets") >>)
       /\ Goto(r, "except")

\* process_message: the classification goes into the ticket and is persisted
UpdateClassification(r) ==
    /\ pc[r] = "update_classification"
    /\ LET c == classification[r]
           t == [ticket[r] EXCEPT
                   !.category = c.category,
                   !.metadata = ("classification_reasoning" :> c.reasoning)
                                @@ ("classification_confidence" :> c.confidence)
                                @@ @]
       IN /\ ticket' = [ticket EXCEPT ![r] = t]
          /\ UpdateTicket(r, t, "chaos_Router")
    /\ UNCHANGED << audit_logs, token_usage, args, classification, handler,
                    handler_response, llm_response, tracker, outcome,
                    auditAtDraw >>
    /\ UNCHANGED << pricing_cache, beyond >>

Route_skips_audit(r) ==
    /\ pc[r] = "route"
    /\ handler' = [handler EXCEPT ![r] = handlers[classification[r].category]]
    /\ Goto(r, "chaos_Handler")
    /\ UNCHANGED << store, args, ticket, classification, handler_response,
                    llm_response, tracker, exc, outcome, trace, writes,
                    auditAtDraw >>
    /\ UNCHANGED << pricing_cache, beyond >>

\* process_message: the handler is looked up and the routing is logged
Route(r) ==
    /\ pc[r] = "route"
    /\ LET h == handlers[classification[r].category]
       IN /\ handler' = [handler EXCEPT ![r] = h]
          /\ audit_logs' = Append(audit_logs,
                AuditLog(ticket[r].id, orchestrator, ROUTE, h,
                         classification[r].confidence, TRUE, None))
    /\ Log(r, << Ev("audit", orchestrator, ROUTE) >>)
    /\ Goto(r, "chaos_Handler")
    /\ UNCHANGED << tickets, token_usage, args, ticket, classification,
                    handler_response, llm_response, tracker, exc, outcome,
                    writes, auditAtDraw >>
    /\ UNCHANGED << pricing_cache, beyond >>

TicketNotFoundError ==
    [kind |-> "TicketNotFoundError", component |-> None,
     text |-> "Ticket not found"]

\* handler.process up to its call_llm; the query handler first reads the
\* ticket and the customer's tickets from the store.
HandlerProcess(r) ==
    /\ pc[r] = "handler_process"
    /\ IF handler[r] = query_handler /\ ticket[r].id \notin DOMAIN tickets
       THEN /\ Raise(r, TicketNotFoundError)
            /\ Log(r, << Ev("process", handler[r], ""),
                         Ev("fetch", handler[r], "tickets") >>)
            /\ Goto(r, "except")
       ELSE /\ exc' = exc
            /\ Log(r, IF handler[r] = query_handler
                      THEN << Ev("process", handler[r], ""),
                              Ev("fetch", handler[r], "tickets"),
                              Ev("fetch", handler[r], "tickets") >>
                      ELSE << Ev("process", handler[r], "") >>)
            /\ Goto(r, "call_llm")
    /\ UNCHANGED << store, args, ticket, classification, handler,
                    handler_response, llm_response, tracker, outcome, writes,
                    auditAtDraw >>
    /\ UNCHANGED << pricing_cache, beyond >>

final_status_always_resolved(requires_escalation) == RESOLVED

\* process_message, step 5: resolved, or escalated when the handler asks
final_status(requires_escalation) ==
    IF requires_escalation THEN ESCALATED ELSE RESOLVED

\* handler.process returns; process_message fills the ticket object
Respond(r) ==
    /\ pc[r] = "respond"
    /\ LET hr == HandlerResponse(handler[r], args[r].message,
                                 llm_response[r].content.text)
       IN /\ handler_response' = [handler_response EXCEPT ![r] = hr]
          /\ ticket' = [ticket EXCEPT ![r] =
                [@ EXCEPT !.agent_response = hr.response,
                          !.handler_agent = handler[r],
                          !.priority = hr.priority,
                          !.status = final_status(hr.requires_escalation),
                          !.metadata =
                              IF hr.requires_escalation
                              THEN ("escalation_reason" :> hr.escalation_reason)
                                   @@ @
                              ELSE @]]
    /\ Log(r, << Ev("handler_return", handler[r], "") >>)
    /\ Goto(r, "chaos_Database")
    /\ UNCHANGED << store, args, classification, handler, llm_response,
                    tracker, exc, outcome, writes, auditAtDraw >>
    /\ UNCHANGED << pricing_cache, beyond >>

UpdateFinal_with_cost(r) ==
    /\ pc[r] = "update_final"
    /\ UpdateTicket(r, [ticket[r] EXCEPT !.metadata =
                           ("total_cost_usd" :>
                               get_total_cost_by_ticket(token_usage, ticket[r].id))
                           @@ @],
                    "get_cost")
    /\ UNCHANGED << audit_logs, token_usage, args, ticket, classification,
                    handler, handler_response, llm_response, tracker, outcome,
                    auditAtDraw >>
    /\ UNCHANGED << pricing_cache, beyond >>

\* process_message: the final update of the ticket row
UpdateFinal(r) ==
    /\ pc[r] = "update_final"
    /\ UpdateTicket(r, ticket[r], "get_cost")
    /\ UNCHANGED << audit_logs, token_usage, args, ticket, classification,
                    handler, handler_response, llm_response, tracker, outcome,
                    auditAtDraw >>
    /\ UNCHANGED << pricing_cache, beyond >>

StoreError ==
    [kind |-> "sqlite3.Error", component |-> None, text |-> "query failed"]

\* process_message: the cost roll-up, then the result goes to the caller
GetTicketCost(r) ==
    /\ pc[r] = "get_cost"
    /\ \/ LET total == get_total_cost_by_ticket(token_usage, ticket[r].id)
              t == [ticket[r] EXCEPT
                      !.metadata = ("total_cost_usd" :> total) @@ @]
          IN /\ ticket' = [ticket EXCEPT ![r] = t]
             /\ outcome' = [outcome EXCEPT ![r] =
                   [status |-> "returned", direct |-> FALSE, ticket |-> t,
                    classification |-> classification[r],
                    response |-> handler_response[r].response,
                    handler_used |-> handler[r],
                    requires_escalation |->
                        handler_response[r].requires_escalation,
                    escalation_reason |->
                        handler_response[r].escalation_reason]]
             /\ exc' = exc
             /\ Log(r, << Ev("cost", "token_tracker", "token_usage"),
                          Ev("return", orchestrator, "") >>)
             /\ Goto(r, "done")
       \/ /\ ticket' = ticket
          /\ outcome' = outcome
          /\ Raise(r, StoreError)
          /\ Log(r, << Ev("cost_failed", "token_tracker", "token_usage") >>)
          /\ Goto(r, "except")
    /\ UNCHANGED << store, args, classification, handler, handler_response,
                    llm_response, tracker, writes, auditAtDraw >>
    /\ UNCHANGED << pricing_cache, beyond >>

logs_failure_never(e) == FALSE

logs_failure_always(e) == TRUE

\* process_message, the except clauses: does this exception get the
\* orchestrator's failure entry?  (except ChaosError: raise)
logs_failure(e) == e.kind # "ChaosError"

\* process_message, the except clauses; the exception reaches the caller
Except(r) ==
    /\ pc[r] = "except"
    /\ IF logs_failure(exc[r])
       THEN /\ audit_logs' = Append(audit_logs,
                  AuditLog(ticket[r].id, orchestrator, RESPOND,
                           "Processing failed", NoScore, FALSE, exc[r].text))
            /\ Log(r, << Ev("audit", orchestrator, RESPOND),
                         Ev("raise", exc[r].kind, "") >>)
       ELSE /\ audit_logs' = audit_logs
            /\ Log(r, << Ev("raise", exc[r].kind, "") >>)
    /\ outcome' = [outcome EXCEPT ![r] = [status |-> "raised", error |-> exc[r]]]
    /\ Goto(r, "done")
    /\ UNCHANGED << tickets, token_usage, args, ticket, classification,
                    handler, handler_response, llm_response, tracker, exc,
                    writes, auditAtDraw >>
    /\ UNCHANGED << pricing_cache, beyond >>

Next ==
    \E r \in Runs :
        \/ CreateTicket(r)
        \/ DirectChaosCall(r)
        \/ ChaosTicketService(r)
        \/ ChaosClassifier(r)
        \/ CallLLMComplete(r)
        \/ CallLLMTrackUsage(r)
        \/ CallLLMFlush(r)
        \/ ClassifierResult(r)
        \/ UpdateClassification(r)
        \/ ChaosRouter(r)
        \/ Route(r)
        \/ ChaosHandler(r)
        \/ HandlerProcess(r)
        \/ Respond(r)
        \/ ChaosDatabase(r)
        \/ UpdateFinal(r)
        \/ GetTicketCost(r)
        \/ Except(r)

Spec == Init /\ [][Next]_vars

\* ------------------------------------------- the handler stage, any message
\* The words customers write, and the messages of up to MaxWords words.
Words ==
    { "hello", "FRAUD", "issue", "lawyer", "URGENT", "Wire Transfer",
      "mortgage" }

Texts == UNION { [1..n -> Words] : n \in 0..MaxWords }

\* The state of the first call of process_message(c, m, cm) when it has
\* logged the routing, the classifier having been answered with reply and
\* no step having failed.
Routed(c, m, cm, reply) ==
    LET res == parse_response(reply)
        h == handlers[res.category]
        t0 == Ticket(1, c, m, QUERY)
        t1 == [t0 EXCEPT
                 !.category = res.category,
                 !.metadata = ("classification_reasoning" :> res.reasoning)
                              @@ ("classification_confidence" :> res.confidence)
                              @@ @]
        flushed == AuditLog(1, classifier, CLASSIFY, reply.text, NoScore,
                            TRUE, None)
    IN [tickets |-> repo_update(repo_create(<< >>, t0), t1),
        audit_logs |-> << flushed, classification_entry(1, res),
                          AuditLog(1, orchestrator, ROUTE, h, res.confidence,
                                   TRUE, None) >>,
        token_usage |->
            << TokenUsage(1, classifier,
                          LLMResponse(reply, DefaultSettings.active_model),
                          DEFAULT_MODEL_PRICING) >>,
        args |-> [customer_id |-> c, message |-> m, chaos_mode |-> cm],
        ticket |-> t1,
        classification |-> res,
        handler |-> h,
        llm_response |-> LLMResponse(reply, DefaultSettings.active_model),
        tracker |-> set_output(ActionTracker(classifier, CLASSIFY), reply.text),
        trace |-> << Ev("insert", "ticket_service", "tickets"),
                     Ev("chaos_check", "TicketService", ""),
                     Ev("chaos_check", "Classifier", ""),
                     Ev("process", classifier, ""),
                     Ev("llm", classifier, ""),
                     Ev("insert", classifier, "token_usage"),
                     Ev("audit", classifier, CLASSIFY),
                     Ev("audit", classifier, CLASSIFY),
                     Ev("update", "ticket_service", "tickets"),
                     Ev("chaos_check", "Router", ""),
                     Ev("audit", orchestrator, ROUTE) >>,
        writes |-> << to_dict(t0), to_dict(t1) >>,
        auditAtDraw |-> << flushed, classification_entry(1, res) >>]

\* Is the model in the state st of a routed first call?
InRouted(st) ==
    /\ tickets = st.tickets
    /\ audit_logs = st.audit_logs
    /\ token_usage = st.token_usage
    /\ pc = Fresh("idle", 1, "chaos_Handler")
    /\ args = Fresh(NoArgs, 1, st.args)
    /\ ticket = Fresh(NoTicket, 1, st.ticket)
    /\ classification = Fresh(NoClassification, 1, st.classification)
    /\ handler = Fresh(None, 1, st.handler)
    /\ handler_response = Fresh(NoHandlerResponse, 1, NoHandlerResponse)
    /\ llm_response = Fresh(NoResponse, 1, st.llm_response)
    /\ tracker = Fresh(NoTracker, 1, st.tracker)
    /\ exc = Fresh(NoError, 1, NoError)
    /\ outcome = Fresh(NoOutcome, 1, NoOutcome)
    /\ trace = Fresh(<< >>, 1, st.trace)
    /\ writes = Fresh(<< >>, 1, st.writes)
    /\ auditAtDraw = Fresh(<< >>, 1, st.auditAtDraw)
    /\ settings = DefaultSettings
    /\ model_pricing = DEFAULT_MODEL_PRICING
    /\ pricing_cache = DEFAULT_MODEL_PRICING
    /\ client = IdleClient
    /\ connection = IdleConnection
    /\ direct = [d \in Callers |-> NoDirect]

InitHandling ==
    \E c \in Customers, m \in Texts, cm \in BOOLEAN, reply \in AcceptedReplies :
        InRouted(Routed(c, m, cm, reply))

NextHandling ==
    \E r \in Runs :
        \/ ChaosHandler(r)
        \/ HandlerProcess(r)
        \/ CallLLMComplete(r)
        \/ CallLLMTrackUsage(r)
        \/ CallLLMFlush(r)
        \/ Respond(r)
        \/ ChaosDatabase(r)
        \/ UpdateFinal(r)
        \/ GetTicketCost(r)
        \/ Except(r)

\* The rest of process_message from the handler stage on, for every message
\* of up to MaxWords words.
SpecHandling == InitHandling /\ [][NextHandling]_vars

\* ---------------------------------------- the cost of a call, any pricing
UpsertModelPricing_reprices ==
    /\ \E model \in Models, rate \in Rates :
          /\ model_pricing' = upsert_model_pricing(model_pricing, model, rate)
          /\ token_usage' =
                [i \in 1..Len(token_usage) |->
                    IF token_usage[i].model_name = model
                    THEN TokenUsage(token_usage[i].ticket_id,
                                    token_usage[i].agent_name,
                                    [model |-> model,
                                     input_tokens |-> token_usage[i].input_tokens,
                                     output_tokens |-> token_usage[i].output_tokens,
                                     cached_tokens |-> token_usage[i].cached_tokens],
                                    model_pricing')
                    ELSE token_usage[i]]
    /\ UNCHANGED << tickets, audit_logs, pc, args, ticket,
                    classification, handler, handler_response, llm_response,
                    tracker, exc, outcome, trace, writes, auditAtDraw,
                    settings, pricing_cache, client, connection, direct >>

\* An operator changes or adds a price: UsageRepository.upsert_model_pricing
UpsertModelPricing ==
    /\ \E model \in Models, rate \in Rates :
          model_pricing' = upsert_model_pricing(model_pricing, model, rate)
    /\ UNCHANGED << tickets, audit_logs, token_usage, pc, args, ticket,
                    classification, handler, handler_response, llm_response,
                    tracker, exc, outcome, trace, writes, auditAtDraw,
                    settings, pricing_cache, client, connection, direct >>

\* Is the model in the state of a first call process_message(c, m,
\* chaos_mode=False) that has created its ticket and is about to classify,
\* the process being configured with the model active_model?
InCreated(c, m, active_model) ==
    LET t0 == Ticket(1, c, m, QUERY)
    IN /\ tickets = repo_create(<< >>, t0)
       /\ audit_logs = << >>
       /\ token_usage = << >>
       /\ pc = Fresh("idle", 1, "call_llm")
       /\ args = Fresh(NoArgs, 1,
                   [customer_id |-> c, message |-> m, chaos_mode |-> FALSE])
       /\ ticket = Fresh(NoTicket, 1, t0)
       /\ classification = Fresh(NoClassification, 1, NoClassification)
       /\ handler = Fresh(None, 1, None)
       /\ handler_response = Fresh(NoHandlerResponse, 1, NoHandlerResponse)
       /\ llm_response = Fresh(NoResponse, 1, NoResponse)
       /\ tracker = Fresh(NoTracker, 1, NoTracker)
       /\ exc = Fresh(NoError, 1, NoError)
       /\ outcome = Fresh(NoOutcome, 1, NoOutcome)
       /\ trace = Fresh(<< >>, 1,
                    << Ev("insert", "ticket_service", "tickets"),
                       Ev("chaos_check", "TicketService", ""),
                       Ev("chaos_check", "Classifier", "") >>)
       /\ writes = Fresh(<< >>, 1, << to_dict(t0) >>)
       /\ auditAtDraw = Fresh(<< >>, 1, << >>)
       /\ settings = [DefaultSettings EXCEPT !.active_model = active_model]
       /\ model_pricing = DEFAULT_MODEL_PRICING
       /\ pricing_cache = [m2 \in {} |-> None]
       /\ client = IdleClient
       /\ connection = IdleConnection
       /\ direct = [d \in Callers |-> NoDirect]

InitCost ==
    \E c \in Customers, m \in Messages, active_model \in Models :
        InCreated(c, m, active_model)

NextCost ==
    \/ UpsertModelPricing
    \/ \E r \in Runs :
          \/ CallLLMComplete(r)
          \/ CallLLMTrackUsage(r)
          \/ CallLLMFlush(r)
          \/ ClassifierResult(r)
          \/ UpdateClassification(r)
          \/ ChaosRouter(r)
          \/ Route(r)
          \/ ChaosHandler(r)
          \/ HandlerProcess(r)
          \/ Respond(r)
          \/ ChaosDatabase(r)
          \/ UpdateFinal(r)
          \/ GetTicketCost(r)
          \/ Except(r)

\* process_message from the classifier's call on, under any configured
\* model and any change of the prices.
SpecCost == InitCost /\ [][NextCost]_vars

\* ------------------------------------------------- LLMClient.complete
\* @retry(stop=stop_after_attempt(3), wait=wait_exponential(multiplier=1,
\* min=1, max=10)) with tenacity's defaults for what the decorator does not
\* name: every exception is retried, and reraise is off.
stop_after_attempt(attempt_number) == attempt_number >= 3

\* wait_exponential(multiplier=1, min=1, max=10), in seconds
RECURSIVE Pow2(_)
Pow2(n) == IF n = 0 THEN 1 ELSE 2 * Pow2(n - 1)

wait_exponential(attempt_number) == Max(1, Min(Pow2(attempt_number - 1), 10))

\* tenacity's default retry=retry_if_exception_type(): any Exception
retry_if(error) == TRUE

\* The keys a deployment may be configured with: a valid one, a revoked
\* one, none.
ApiKeys == {"sk-valid", "sk-revoked", None}

\* What the provider answers to a request made with this key.
ProviderAnswers(api_key) ==
    IF api_key = "sk-valid"
    THEN {"response", "timeout", "rate_limit", "server_error", "bad_request"}
    ELSE {"authentication_error"}

\* The provider errors that no repetition of the request can cure, and the
\* missing key.
NonRecoverable == {"authentication_error", "bad_request", "no_key"}

\* What a direct call of complete leaves alone.
pipeline ==
    << tickets, audit_logs, token_usage, pc, args, ticket, classification,
       handler, handler_response, llm_response, tracker, exc, outcome, trace,
       writes, auditAtDraw, settings, model_pricing, pricing_cache,
       connection, direct >>

\* complete(...) is called: the decorator starts with attempt 1.
ClientCall ==
    /\ client.state \in {"idle", "returned", "raised"}
    /\ client' = [IdleClient EXCEPT !.state = "attempt", !.attempt_number = 1]
    /\ UNCHANGED pipeline

\* One attempt: the body of complete.  Without a key the client property
\* raises LLMError before any request; otherwise the provider is asked, and
\* every exception of the request is turned into LLMError.  The decorator
\* then stops with RetryError or goes to sleep.
ClientAttempt ==
    /\ client.state = "attempt"
    /\ \E answer \in IF settings.api_key = None THEN {"no_key"}
                     ELSE ProviderAnswers(settings.api_key) :
          LET asked == [client EXCEPT
                          !.answers = Append(@, answer),
                          !.contacts = IF answer = "no_key" THEN @ ELSE @ + 1]
          IN client' =
                IF answer = "response"
                THEN [asked EXCEPT !.state = "returned"]
                ELSE IF ~retry_if(LLMError)
                THEN [asked EXCEPT !.state = "raised", !.result = LLMError]
                ELSE IF stop_after_attempt(client.attempt_number)
                THEN [asked EXCEPT !.state = "raised", !.result = RetryError]
                ELSE [asked EXCEPT !.state = "sleep"]
    /\ UNCHANGED pipeline

\* The decorator sleeps wait_exponential seconds and starts the next attempt.
ClientBackoff ==
    /\ client.state = "sleep"
    /\ client' = [client EXCEPT
                    !.state = "attempt",
                    !.waited = @ + wait_exponential(client.attempt_number),
                    !.attempt_number = @ + 1]
    /\ UNCHANGED pipeline

InitClient ==
    /\ NoCalls
    /\ \E k \in ApiKeys : settings = [DefaultSettings EXCEPT !.api_key = k]

NextClient == ClientCall \/ ClientAttempt \/ ClientBackoff

\* Direct calls of LLMClient.complete, under any configured key.
SpecClient == InitClient /\ [][NextClient]_vars

\* ------------------------------- DatabaseConnection under concurrency
\* Coroutines of one event loop call the operations of the one
\* DatabaseConnection.  A coroutine runs without interruption from one
\* await to the next; every await on the lock or on the aiosqlite
\* connection is a point where another coroutine may run.
Operations ==
    {"execute", "execute_many", "fetch_one", "fetch_all", "transaction"}

Writes == {"execute", "execute_many"}

\* The uncommitted statements of the aiosqlite connection are counted up to
\* MaxPending.
MaxPending == 2

\* Where an operation stands once it holds the lock.
FirstStep(op) == IF op = "transaction" THEN "body" ELSE "statement"

\* The coroutine has the lock.
Enter(conn, c) ==
    [conn EXCEPT !.locked = TRUE, !.since = << >>,
                 !.at[c] = FirstStep(conn.op[c])]

acquire_ignores_holder(conn, c) == Enter(conn, c)

\* `async with self._lock` is entered: asyncio.Lock.acquire takes a free
\* lock nobody waits for, and queues the coroutine otherwise.
acquire(conn, c) ==
    IF ~conn.locked /\ conn.waiters = << >>
    THEN Enter(conn, c)
    ELSE [conn EXCEPT !.waiters = Append(@, c), !.at[c] = "waiting"]

\* `async with self._lock` is left, by a return or by an exception:
\* asyncio.Lock.release frees the lock and wakes the first waiter.
release_keeps_lock(conn, c) ==
    [conn EXCEPT !.since = << >>, !.at[c] = "idle", !.op[c] = None]

release(conn, c) ==
    [conn EXCEPT !.locked = FALSE, !.since = << >>,
                 !.at[c] = "idle", !.op[c] = None]

\* The aiosqlite connection has done `what` for coroutine c.
Did(conn, c, what) ==
    [conn EXCEPT !.since = Append(@, [who |-> c, what |-> what])]

\* Everything but the connection.
outside ==
    << tickets, audit_logs, token_usage, pc, args, ticket, classification,
       handler, handler_response, llm_response, tracker, exc, outcome, trace,
       writes, auditAtDraw, settings, model_pricing, pricing_cache, client,
       direct >>

\* A coroutine calls one of the five operations and reaches its lock.
ConnCall(c) ==
    /\ connection.at[c] = "idle"
    /\ \E op \in Operations :
          connection' = acquire([connection EXCEPT !.op[c] = op], c)
    /\ UNCHANGED outside

\* The first waiter of a released lock resumes and takes it.
ConnResume(c) ==
    /\ connection.at[c] = "waiting"
    /\ ~connection.locked
    /\ connection.waiters # << >>
    /\ Head(connection.waiters) = c
    /\ connection' = Enter([connection EXCEPT !.waiters = Tail(@)], c)
    /\ UNCHANGED outside

\* connection.execute / connection.executemany of execute, execute_many,
\* fetch_one and fetch_all: the statement runs or raises.
ConnStatement(c) ==
    /\ connection.at[c] = "statement"
    /\ \E ok \in BOOLEAN :
          LET ran == Did(connection, c, "statement")
          IN connection' =
                IF ~ok THEN release(ran, c)
                ELSE IF connection.op[c] \in Writes
                THEN [ran EXCEPT !.pending = Min(@ + 1, MaxPending),
                                 !.at[c] = "commit"]
                ELSE [ran EXCEPT !.at[c] = "fetch"]
    /\ UNCHANGED outside

\* cursor.fetchone / cursor.fetchall, then the operation returns or raises.
ConnFetch(c) ==
    /\ connection.at[c] = "fetch"
    /\ connection' = release(Did(connection, c, "fetch"), c)
    /\ UNCHANGED outside

\* The body of `async with db.transaction()`: it runs a statement on the
\* connection it was given, or ends, or raises.
ConnBody(c) ==
    /\ connection.at[c] = "body"
    /\ \/ /\ connection.pending < MaxPending
          /\ connection' = [Did(connection, c, "statement") EXCEPT
                               !.pending = @ + 1]
       \/ connection' = [connection EXCEPT !.at[c] = "commit"]
       \/ connection' = [connection EXCEPT !.at[c] = "rollback"]
    /\ UNCHANGED outside

\* connection.commit: it makes the pending statements durable, or raises and
\* leaves them pending; transaction() rolls back on the exception, execute
\* and execute_many let it through.
ConnCommit(c) ==
    /\ connection.at[c] = "commit"
    /\ \E ok \in BOOLEAN :
          LET tried == Did(connection, c, "commit")
          IN connection' =
                IF ok THEN release([tried EXCEPT !.pending = 0], c)
                ELSE IF connection.op[c] = "transaction"
                THEN [tried EXCEPT !.at[c] = "rollback"]
                ELSE release(tried, c)
    /\ UNCHANGED outside

\* connection.rollback in transaction(), then the exception goes on.
ConnRollback(c) ==
    /\ connection.at[c] = "rollback"
    /\ connection' =
          release([Did(connection, c, "rollback") EXCEPT !.pending = 0], c)
    /\ UNCHANGED outside

NextConnection ==
    \E c \in Coroutines :
        \/ ConnCall(c)
        \/ ConnResume(c)
        \/ ConnStatement(c)
        \/ ConnFetch(c)
        \/ ConnBody(c)
        \/ ConnCommit(c)
        \/ ConnRollback(c)

\* Concurrent requests on the one connection, in every interleaving.
SpecConnection == Init /\ [][NextConnection]_vars

\* The event loop runs every coroutine that can go on, and aiosqlite ends
\* every statement, fetch, commit and rollback it was given; whether and
\* when a coroutine calls an operation is up to the callers.
Scheduled(c) ==
    /\ WF_vars(ConnResume(c))
    /\ WF_vars(ConnStatement(c))
    /\ WF_vars(ConnFetch(c))
    /\ WF_vars(ConnBody(c))
    /\ WF_vars(ConnCommit(c))
    /\ WF_vars(ConnRollback(c))

SpecConnectionFair ==
    Init /\ [][NextConnection]_vars /\ \A c \in Coroutines : Scheduled(c)

\* ------------------------------------------ process_message, concurrently
\* Several callers have process_message in flight on the one orchestrator
\* of the process.  Each database operation of a run is one step (it runs
\* under the connection's lock); the runs interleave at their awaits.
MaxInFlight == 2
InFlight == 1..MaxInFlight

\* The message of each of the calls in flight.
Sent == << << "FRAUD" >>, << "Wire Transfer" >>, << >> >>

MessageOf(r) == Sent[((r - 1) % Len(Sent)) + 1]

\* process_message(c, m, chaos_mode=False) is called while other calls are
\* in flight; the frames of the other calls stay as they are.
ProcessMessage(r) ==
    /\ pc[r] = "idle"
    /\ \E c \in Customers, m \in {MessageOf(r)}, ok \in BOOLEAN :
          LET t == Ticket(r, c, m, QUERY)
          IN /\ args' = [args EXCEPT ![r] =
                          [customer_id |-> c, message |-> m, chaos_mode |-> FALSE]]
             /\ IF ok
                THEN /\ tickets' = repo_create(tickets, t)
                     /\ ticket' = [ticket EXCEPT ![r] = t]
                     /\ writes' = [writes EXCEPT ![r] = << to_dict(t) >>]
                     /\ Log(r, << Ev("insert", "ticket_service", "tickets") >>)
                     /\ outcome' = outcome
                     /\ Goto(r, "chaos_TicketService")
                ELSE /\ UNCHANGED << tickets, ticket, writes >>
                     /\ Log(r, << Ev("insert_failed", "ticket_service", "tickets") >>)
                     /\ outcome' = [outcome EXCEPT ![r] =
                            [status |-> "raised",
                             error |-> DatabaseError("Failed to create ticket")]]
                     /\ Goto(r, "done")
    /\ UNCHANGED << audit_logs, token_usage, classification, handler,
                    handler_response, llm_response, tracker, exc, auditAtDraw >>
    /\ UNCHANGED << pricing_cache, beyond >>

\* What the provider answers to the calls in flight: for the classifier one
\* reply of each category and one that is no JSON.
RepliesInFlight(agent) ==
    IF agent = classifier
    THEN { reply \in ClassifierReplies :
             reply.text \in {"json-positive", "json-negative", "json-query",
                             "not-json"} }
    ELSE HandlerReplies

CallLLMCompleteInFlight(r) ==
    CallLLMCompleteWith(r, RepliesInFlight(CurrentAgent(r)))

InitConcurrent == BeforeCalls(InFlight) /\ settings = DefaultSettings

NextConcurrent ==
    \E r \in InFlight :
        \/ ProcessMessage(r)
        \/ ChaosTicketService(r)
        \/ ChaosClassifier(r)
        \/ CallLLMCompleteInFlight(r)
        \/ CallLLMTrackUsage(r)
        \/ CallLLMFlush(r)
        \/ ClassifierResult(r)
        \/ UpdateClassification(r)
        \/ ChaosRouter(r)
        \/ Route(r)
        \/ ChaosHandler(r)
        \/ HandlerProcess(r)
        \/ Respond(r)
        \/ ChaosDatabase(r)
        \/ UpdateFinal(r)
        \/ GetTicketCost(r)
        \/ Except(r)

\* MaxInFlight calls of process_message in every interleaving.
SpecConcurrent == InitConcurrent /\ [][NextConcurrent]_vars

\* ------------------------------------------- direct calls of TicketService
\* Besides process_message, callers use the ticket operations of
\* TicketService directly.  Each operation that changes a ticket reads the
\* row (get_by_id), changes the object it got and writes it back (update):
\* two store operations with an await between them.
TicketIds == 1..(MaxRuns + 1)

\* Ticket.from_dict: the ticket object of a row
from_dict(row) ==
    [id |-> row.id, customer_id |-> row.customer_id,
     customer_message |-> row.customer_message, category |-> row.category,
     status |-> row.status, priority |-> row.priority,
     agent_response |-> row.agent_response,
     handler_agent |-> row.handler_agent,
     metadata |-> row.metadata, resolved_at |-> row.resolved_at]

\* What the direct callers pass.
ServiceResponses == {None, "thank you"}
ServiceReasons == {"threat of legal action"}

\* datetime.utcnow() of a direct call
Now == "utcnow"

\* Everything but the tickets table and the direct callers' frames.
served ==
    << audit_logs, token_usage, pc, args, ticket, classification, handler,
       handler_response, llm_response, tracker, exc, outcome, trace, writes,
       auditAtDraw, settings, model_pricing, pricing_cache, client,
       connection >>

\* TicketRepository.get_by_id as the first step of the operation op: the
\* object change(ticket) goes on to the step `then`, a missing row raises.
Lookup(d, op, id, change(_), then) ==
    direct' = [direct EXCEPT ![d] =
        IF id \in DOMAIN tickets
        THEN [op |-> op, at |-> then, id |-> id, status |-> "returned",
              ticket |-> change(from_dict(tickets[id]))]
        ELSE [op |-> op, at |-> "done", id |-> id, status |-> "raised",
              error |-> TicketNotFoundError]]

\* TicketService.get_ticket(ticket_id)
GetTicket(d) ==
    /\ direct[d].at = "idle"
    /\ \E id \in TicketIds :
          Lookup(d, "get_ticket", id, LAMBDA t : t, "done")
    /\ UNCHANGED << tickets, served >>

\* TicketService.set_response(ticket_id, response, handler_agent), up to
\* its update
SetResponse(d) ==
    /\ direct[d].at = "idle"
    /\ \E id \in TicketIds :
          Lookup(d, "set_response", id,
                 LAMBDA t : [t EXCEPT !.agent_response = "thank you",
                                      !.handler_agent = "human",
                                      !.status = IN_PROGRESS],
                 "update")
    /\ UNCHANGED << tickets, served >>

\* TicketService.resolve_ticket(ticket_id, response), up to its update: with
\* a response through TicketRepository.resolve, without one by itself.
ResolveTicket(d) ==
    /\ direct[d].at = "idle"
    /\ \E id \in TicketIds, response \in ServiceResponses :
          IF response # None
          THEN Lookup(d, "resolve", id,
                      LAMBDA t : [t EXCEPT !.status = RESOLVED,
                                           !.agent_response = response,
                                           !.resolved_at = Now],
                      "update")
          ELSE Lookup(d, "resolve_ticket", id,
                      LAMBDA t : [t EXCEPT !.status = RESOLVED], "update")
    /\ UNCHANGED << tickets, served >>

\* TicketService.escalate_ticket(ticket_id, reason), up to its update
EscalateTicket(d) ==
    /\ direct[d].at = "idle"
    /\ \E id \in TicketIds, reason \in ServiceReasons :
          Lookup(d, "escalate_ticket", id,
                 LAMBDA t : [t EXCEPT
                                !.status = ESCALATED,
                                !.metadata = ("escalation_reason" :> reason) @@ @],
                 "update")
    /\ UNCHANGED << tickets, served >>

\* TicketRepository.update(ticket) of the operation in progress, which then
\* returns the ticket, or raises DatabaseError when the statement fails.
ServiceUpdate(d) ==
    /\ direct[d].at = "update"
    /\ \/ /\ tickets' = repo_update(tickets, direct[d].ticket)
          /\ direct' = [direct EXCEPT ![d].at = "done"]
       \/ /\ tickets' = tickets
          /\ direct' = [direct EXCEPT ![d] =
                [op |-> direct[d].op, at |-> "done", id |-> direct[d].id,
                 status |-> "raised",
                 error |-> DatabaseError("Failed to update ticket")]]
    /\ UNCHANGED served

\* The caller has its result and drops the frame.
ServiceReturn(d) ==
    /\ direct[d].at = "done"
    /\ direct' = [direct EXCEPT ![d] = NoDirect]
    /\ UNCHANGED << tickets, served >>

\* No other direct caller has a call in progress.
Alone(d) == \A e \in Callers : e # d => direct[e].at = "idle"

\* process_message calls one after the other, and direct lookups of
\* tickets, one at a time, between any two of their steps.
NextLookup ==
    \/ Next
    \/ \E d \in Callers :
          \/ Alone(d) /\ GetTicket(d)
          \/ Alone(d) /\ ServiceReturn(d)

SpecLookup == Init /\ [][NextLookup]_vars

\* A call process_message(c, "FRAUD", chaos_mode=False) has created its
\* ticket.
InitService ==
    \E c \in Customers :
        InCreated(c, << "FRAUD" >>, DefaultSettings.active_model)

\* The rest of that call, and direct calls of the ticket operations, one at
\* a time, between any two of its steps.
NextService ==
    \/ \E r \in Runs :
          \/ CallLLMCompleteInFlight(r)
          \/ CallLLMTrackUsage(r)
          \/ CallLLMFlush(r)
          \/ ClassifierResult(r)
          \/ UpdateClassification(r)
          \/ ChaosRouter(r)
          \/ Route(r)
          \/ ChaosHandler(r)
          \/ HandlerProcess(r)
          \/ Respond(r)
          \/ ChaosDatabase(r)
          \/ UpdateFinal(r)
          \/ GetTicketCost(r)
          \/ Except(r)
    \/ \E d \in Callers :
          \/ Alone(d) /\ GetTicket(d)
          \/ Alone(d) /\ SetResponse(d)
          \/ Alone(d) /\ ResolveTicket(d)
          \/ Alone(d) /\ EscalateTicket(d)
          \/ Alone(d) /\ ServiceUpdate(d)
          \/ Alone(d) /\ ServiceReturn(d)

SpecService == InitService /\ [][NextService]_vars

\* Direct calls of the ticket operations by MaxCallers callers at once, on
\* the ticket of that call and on one that does not exist, interleaved at
\* the await between an operation's get_by_id and its update.
NextServiceConcurrent ==
    \E d \in Callers :
        \/ GetTicket(d)
        \/ SetResponse(d)
        \/ ResolveTicket(d)
        \/ EscalateTicket(d)
        \/ ServiceUpdate(d)
        \/ ServiceReturn(d)

SpecServiceConcurrent == InitService /\ [][NextServiceConcurrent]_vars

\* ============================================================ properties
Agents == {classifier, positive_handler, negative_handler, query_handler}

HasEv(r, e) == \E i \in DOMAIN trace[r] : trace[r][i] = e

CountEv(r, Test(_)) == Len(SelectSeq(trace[r], Test))

Failures(ticket_id) == SelectSeq(Trail(ticket_id), LAMBDA e : ~e.success)

\* process_message of run r has ended with an exception, its ticket created
FailedRun(r) ==
    /\ pc[r] = "done"
    /\ outcome[r].status = "raised"
    /\ ticket[r] # NoTicket

\* process_message of run r has returned its result
ReturnedRun(r) ==
    /\ pc[r] = "done"
    /\ outcome[r].status = "returned"
    /\ ~outcome[r].direct

\* The exception arose inside an agent's call_llm.
RaisedInCallLLM(r) ==
    \E a \in Agents : \/ HasEv(r, Ev("llm_raised", a, ""))
                      \/ HasEv(r, Ev("insert_failed", a, "token_usage"))

ChaosAborted(r) ==
    /\ FailedRun(r)
    /\ outcome[r].error.kind = "ChaosError"

StageNames ==
    {"TicketService", "Classifier", "Router", "Database",
     positive_handler, negative_handler, query_handler}

\* C3: the ChaosError of a fault draw is what the caller receives, it names
\* the stage of that draw, and the ticket's trail is then what it was at
\* the draw.
C3_ChaosErrorUnlogged ==
    \A r \in Runs :
        ChaosAborted(r) =>
            LET n == Len(trace[r])
            IN /\ trace[r][n - 1].op = "chaos_check"
               /\ outcome[r].error.component = trace[r][n - 1].who
               /\ outcome[r].error.component \in StageNames
               /\ outcome[r].error.text \in failure_messages
               /\ outcome[r].error = exc[r]
               /\ Trail(ticket[r].id) = auditAtDraw[r]

C3_Witness ==
    \E r \in Runs :
        /\ ChaosAborted(r)
        /\ outcome[r].error.component = "Database"
        /\ Len(Trail(ticket[r].id)) = 4

\* C4: with chaos_mode false no ChaosError is raised, in process_message or
\* in a direct call of _maybe_trigger_chaos, whatever is drawn.
C4_NoChaosWhenDisabled ==
    \A r \in Runs :
        ~args[r].chaos_mode =>
            /\ exc[r].kind # "ChaosError"
            /\ outcome[r].status = "raised" =>
                  outcome[r].error.kind # "ChaosError"

C4_Witness ==
    \E r \in Runs :
        /\ ReturnedRun(r)
        /\ ~args[r].chaos_mode
        /\ CountEv(r, LAMBDA e : e.op = "chaos_check") = 5

\* C5 as stated: a run aborted by the fault of stage S has performed no
\* store write of S: no ticket insert for TicketService, no write of the
\* classifier for Classifier, no ROUTE entry for Router, no write of the
\* handler for its stage, no ticket update for Database.
C5_FaultBeforeStageWork ==
    \A r \in Runs :
        ChaosAborted(r) =>
            LET s == outcome[r].error.component
            IN /\ s = "TicketService" =>
                     /\ ~HasEv(r, Ev("insert", "ticket_service", "tickets"))
                     /\ ticket[r].id \notin DOMAIN tickets
               /\ s = "Classifier" =>
                     CountEv(r, LAMBDA e : e.who = classifier) = 0
               /\ s = "Router" => ~HasEv(r, Ev("audit", orchestrator, ROUTE))
               /\ s \in Agents =>
                     CountEv(r, LAMBDA e : e.who = s /\ e.op # "chaos_check") = 0
               /\ s = "Database" =>
                     ~HasEv(r, Ev("update", "ticket_service", "tickets"))

\* The operations C6 orders.
IsCore(e) ==
    \/ e.op \in {"llm", "update", "cost", "return"}
    \/ e.op = "insert" /\ e.what = "tickets"
    \/ e.op = "audit" /\ e.what = ROUTE

\* C6: a run that returns has performed, once each and in this order: the
\* ticket insert with category query, the classifier's model call, the
\* update with the classification, the ROUTE entry, the handler's model
\* call, the update with response, priority, handler and final status, the
\* cost query, the return.
C6_PipelineOrder ==
    \A r \in Runs :
        ReturnedRun(r) =>
            LET res == outcome[r]
                w == writes[r]
            IN /\ SelectSeq(trace[r], IsCore) =
                    << Ev("insert", "ticket_service", "tickets"),
                       Ev("llm", classifier, ""),
                       Ev("update", "ticket_service", "tickets"),
                       Ev("audit", orchestrator, ROUTE),
                       Ev("llm", res.handler_used, ""),
                       Ev("update", "ticket_service", "tickets"),
                       Ev("cost", "token_tracker", "token_usage"),
                       Ev("return", orchestrator, "") >>
               /\ Len(w) = 3
               /\ w[1].category = QUERY
               /\ w[1].metadata = EmptyMeta
               /\ w[2].category = res.classification.category
               /\ w[2].metadata["classification_confidence"] =
                     res.classification.confidence
               /\ w[2].metadata["classification_reasoning"] =
                     res.classification.reasoning
               /\ w[2].agent_response = None
               /\ w[3].agent_response = res.response
               /\ w[3].handler_agent = res.handler_used
               /\ w[3].priority = handler_response[r].priority
               /\ w[3].status \in {RESOLVED, ESCALATED}
               /\ Len(SelectSeq(Trail(ticket[r].id),
                                LAMBDA e : e.action = ROUTE)) = 1

C6_Witness ==
    \E r \in Runs :
        /\ ReturnedRun(r)
        /\ outcome[r].handler_used = query_handler
        /\ Len(trace[r]) > 8

\* The handler each category is to be answered by.
Registered(c) ==
    CASE c = POSITIVE -> "positive_handler"
      [] c = NEGATIVE -> "negative_handler"
      [] c = QUERY -> "query_handler"

IsHandlerProcess(e) == e.op = "process" /\ e.who # classifier

\* C7: the only handler a run invokes is the one registered for the
\* classified category; when the run returns, the stored ticket has that
\* category and the handler name of the result.
C7_HandlerByCategory ==
    \A r \in Runs :
        /\ CountEv(r, IsHandlerProcess) <= 1
        /\ \A i \in DOMAIN trace[r] :
              (trace[r][i].op \in {"process", "llm"}
                    /\ trace[r][i].who # classifier) =>
                 /\ classification[r].ok
                 /\ trace[r][i].who = Registered(classification[r].category)
        /\ ReturnedRun(r) =>
              /\ CountEv(r, IsHandlerProcess) = 1
              /\ outcome[r].handler_used =
                    Registered(outcome[r].classification.category)
              /\ tickets[ticket[r].id].category =
                    outcome[r].classification.category
              /\ tickets[ticket[r].id].handler_agent = outcome[r].handler_used

C7_Witness ==
    \E r \in Runs :
        /\ ReturnedRun(r)
        /\ tickets[ticket[r].id].category = POSITIVE
        /\ outcome[r].handler_used = positive_handler

\* The stored status of the ticket of run r
StoredStatus(r) == tickets[ticket[r].id].status

C8_StatusNow ==
    /\ \A id \in DOMAIN tickets :
          tickets[id].status \in {OPEN, RESOLVED, ESCALATED}
    /\ \A r \in Runs :
          writes[r] # << >> =>
             IF Len(writes[r]) < 3
             THEN StoredStatus(r) = OPEN
             ELSE StoredStatus(r) =
                     IF handler_response[r].requires_escalation
                     THEN ESCALATED ELSE RESOLVED

C8_StatusStep ==
    \A id \in DOMAIN tickets :
        /\ id \in DOMAIN tickets'
        /\ \/ tickets'[id].status = tickets[id].status
           \/ /\ tickets[id].status = OPEN
              /\ tickets'[id].status \in {RESOLVED, ESCALATED}

\* C8: the stored status of a run's ticket is open until the final update,
\* which makes it escalated when the handler asks for escalation and
\* resolved otherwise; it never goes back to open, never is in_progress or
\* closed, and never passes from resolved to escalated.
C8_StatusMonotone == [](C8_StatusNow) /\ [][C8_StatusStep]_vars

C8_Witness ==
    \E r \in Runs :
        /\ ReturnedRun(r)
        /\ handler_response[r].requires_escalation
        /\ StoredStatus(r) = ESCALATED

C9_RowIsLastWrite ==
    \A r \in Runs :
        writes[r] # << >> =>
            LET id == ticket[r].id
                n == Len(writes[r])
            IN /\ id \in DOMAIN tickets
               /\ tickets[id] = writes[r][n]
               /\ n = 1 + CountEv(r, LAMBDA e : e.op = "update")
               /\ n = 1 =>
                     tickets[id] =
                        to_dict(Ticket(id, args[r].customer_id,
                                       args[r].message, QUERY))
               /\ n = 2 =>
                     /\ tickets[id].category = classification[r].category
                     /\ tickets[id].status = OPEN
                     /\ tickets[id].agent_response = None
               /\ n = 3 => tickets[id].agent_response # None

IsAgentFailure(e) == e.op \in {"llm_raised", "parse_failed"}

IsStageWork(e) ==
    e.op \in {"process", "llm", "insert", "update", "cost", "return", "fetch"}

NamesCategory(text) ==
    CASE text = "json-positive" -> POSITIVE
      [] text = "json-negative" -> NEGATIVE
      [] text \in {"json-query", "json-query-below"} -> QUERY
      [] OTHER -> None

GivenConfidence(text) ==
    CASE text = "json-positive" -> 90
      [] text = "json-negative" -> 50
      [] text = "json-query" -> 100
      [] text = "json-query-below" -> 0
      [] OTHER -> NoScore

C11_ResultNow ==
    \A r \in Runs :
        /\ classification[r].ok =>
              /\ classification[r].category \in {POSITIVE, NEGATIVE, QUERY}
              /\ classification[r].confidence \in 0..100
              /\ classification[r].category =
                    NamesCategory(classification[r].reasoning)
              /\ classification[r].confidence =
                    GivenConfidence(classification[r].reasoning)
        /\ HasEv(r, Ev("parse_failed", classifier, "")) =>
              /\ ~classification[r].ok
              /\ exc[r].kind = "ClassificationError"
              /\ handler[r] = None
              /\ pc[r] = "done" =>
                    /\ outcome[r].status = "raised"
                    /\ outcome[r].error.kind = "ClassificationError"

C11_ParseStep ==
    \A r \in Runs :
        pc[r] = "parse" =>
            LET content == llm_response[r].content
            IN IF NamesCategory(content.text) = None
               THEN /\ pc'[r] \in {"parse", "except"}
                    /\ classification'[r] = NoClassification
               ELSE /\ pc'[r] \in {"parse", "update_classification"}
                    /\ pc'[r] # "parse" => classification'[r].ok

\* C11: every result the classifier returns has a category among positive,
\* negative, query and a confidence within [0,1]: the provider's value, 0.5
\* when it gave none, the nearest bound when it is out of range; a reply
\* that is not JSON or names no category or an unknown one makes process
\* raise ClassificationError with no result and no handler chosen.
C11_ClassificationValid == [](C11_ResultNow) /\ [][C11_ParseStep]_vars

C11_Witness ==
    \E r \in Runs :
        /\ classification[r].ok
        /\ classification[r].reasoning = "json-query-below"
        /\ classification[r].confidence = 0
        /\ pc[r] = "update_classification"

\* The entries with action classify in the trail of the ticket of run r
ClassifyEntries(r) ==
    SelectSeq(Trail(ticket[r].id), LAMBDA e : e.action = CLASSIFY)

\* The classifier's process call of run r has returned its result
ClassifierReturned(r) == classification[r].ok

\* C12 as stated: a process call that returned a result has written exactly
\* one entry with action classify, scored with the result's confidence.
C12_OneClassifyEntry ==
    \A r \in Runs :
        ClassifierReturned(r) =>
            /\ Len(ClassifyEntries(r)) = 1
            /\ ClassifyEntries(r)[1].confidence_score =
                  classification[r].confidence

\* C12 amended: such a call has written two entries with action classify:
\* first the one of call_llm's track_action (success, the reply text, no
\* confidence score), then exactly one that records the outcome, scored
\* with the confidence of the returned result.
C12_TwoClassifyEntries ==
    \A r \in Runs :
        ClassifierReturned(r) =>
            LET es == ClassifyEntries(r)
                res == classification[r]
            IN /\ Len(es) = 2
               /\ es[1] = AuditLog(ticket[r].id, classifier, CLASSIFY,
                                   res.reasoning, NoScore, TRUE, None)
               /\ es[2].agent_name = classifier
               /\ es[2].success
               /\ es[2].output_summary = res.category
               /\ es[2].confidence_score = res.confidence
               /\ es[2].confidence_score \in 0..100

C12_Witness ==
    \E r \in Runs :
        /\ ClassifierReturned(r)
        /\ pc[r] = "update_classification"
        /\ Len(ClassifyEntries(r)) = 2
        /\ ClassifyEntries(r)[2].confidence_score = 50

\* A first call that stands behind its routing is in the state Routed gives.
RoutedIsReached ==
    (pc[1] = "chaos_Handler" /\ \A q \in Runs : q # 1 => pc[q] = "idle") =>
        \E c \in Customers, m \in Messages, cm \in BOOLEAN,
           reply \in AcceptedReplies : InRouted(Routed(c, m, cm, reply))

\* The escalation trigger phrases a word of the model holds once it is
\* lower-cased, read by hand from the list of NegativeHandler.
TriggersIn(word) ==
    CASE word = "FRAUD" -> {"fraud"}
      [] word = "issue" -> {"sue"}
      [] word = "lawyer" -> {"lawyer"}
      [] OTHER -> {}

Triggers(message) == UNION { TriggersIn(message[i]) : i \in DOMAIN message }

\* The handler of run r has returned its response to process_message
HandlerReturned(r, h) ==
    /\ handler[r] = h
    /\ handler_response[r] # NoHandlerResponse

\* C13: the negative handler's response asks for escalation, with priority
\* CRITICAL and a reason naming a trigger phrase of the message, exactly
\* when the lower-cased message holds a trigger phrase as a substring; for
\* any other message it has no escalation, no reason and priority HIGH.
C13_NegativeEscalation ==
    \A r \in Runs :
        HandlerReturned(r, negative_handler) =>
            LET hr == handler_response[r]
                found == Triggers(args[r].message)
            IN /\ hr.requires_escalation <=> found # {}
               /\ found # {} =>
                     /\ hr.priority = CRITICAL
                     /\ hr.escalation_reason \in found
               /\ found = {} =>
                     /\ hr.priority = HIGH
                     /\ hr.escalation_reason = None

C13_Witness ==
    \E r \in Runs :
        /\ HandlerReturned(r, negative_handler)
        /\ args[r].message = << "hello", "issue" >>
        /\ handler_response[r].escalation_reason = "sue"
        /\ handler_response[r].priority = CRITICAL

\* The higher-stakes phrases a word of the model holds once lower-cased,
\* read by hand from the list of QueryHandler.
HigherStakesIn(word) ==
    CASE word = "Wire Transfer" -> {"wire transfer"}
      [] word = "mortgage" -> {"mortgage"}
      [] OTHER -> {}

HigherStakes(message) ==
    UNION { HigherStakesIn(message[i]) : i \in DOMAIN message }

\* C14: the query handler's response has priority MEDIUM exactly when the
\* lower-cased message holds a higher-stakes phrase, LOW otherwise, and
\* never asks for escalation; the positive handler's has priority MINIMAL
\* and no escalation; a ticket handled by either is never stored with
\* status escalated, and is resolved with that priority when the run
\* returns.
C14_QueryPriority ==
    \A r \in Runs :
        /\ HandlerReturned(r, query_handler) =>
              /\ handler_response[r].priority =
                    IF HigherStakes(args[r].message) # {} THEN MEDIUM ELSE LOW
              /\ ~handler_response[r].requires_escalation
              /\ handler_response[r].escalation_reason = None
        /\ HandlerReturned(r, positive_handler) =>
              /\ handler_response[r].priority = MINIMAL
              /\ ~handler_response[r].requires_escalation
        /\ handler[r] \in {query_handler, positive_handler} =>
              /\ StoredStatus(r) # ESCALATED
              /\ ticket[r].status # ESCALATED
              /\ ReturnedRun(r) =>
                    /\ StoredStatus(r) = RESOLVED
                    /\ tickets[ticket[r].id].priority =
                          handler_response[r].priority
                    /\ ~outcome[r].requires_escalation

C14_Witness ==
    \E r \in Runs :
        /\ ReturnedRun(r)
        /\ handler[r] = query_handler
        /\ args[r].message = << "hello", "Wire Transfer" >>
        /\ tickets[ticket[r].id].priority = MEDIUM
        /\ StoredStatus(r) = RESOLVED

\* A first call without fault injection that is about to classify is in
\* the state InCreated gives.
CreatedIsReached ==
    (/\ pc[1] = "call_llm"
     /\ ~classification[1].ok
     /\ ~args[1].chaos_mode
     /\ \A q \in Runs : q # 1 => pc[q] = "idle") =>
        \E c \in Customers, m \in Messages :
            InCreated(c, m, DefaultSettings.active_model)

\* The usage rows of agent a for the ticket of run r
UsageBy(r, a) == SelectSeq(UsageOf(ticket[r].id), LAMBDA u : u.agent_name = a)

\* The provider calls of agent a in run r that returned a response
Responses(r, a) ==
    CountEv(r, LAMBDA e : e.op = "llm" /\ e.who = a)
    - CountEv(r, LAMBDA e : e.op = "llm_raised" /\ e.who = a)

C15_RowsNow ==
    \A r \in Runs :
        /\ \A a \in Agents :
              /\ Len(UsageBy(r, a)) =
                    IF pc[r] = "track_usage" /\ CurrentAgent(r) = a
                    THEN Responses(r, a) - 1
                    ELSE Responses(r, a)
                         - CountEv(r, LAMBDA e : e.op = "insert_failed"
                                                 /\ e.who = a)
              /\ Responses(r, a) <= 1
              /\ \A i \in DOMAIN UsageBy(r, a) :
                    /\ UsageBy(r, a)[i].input_tokens = 1000
                    /\ UsageBy(r, a)[i].output_tokens = 1000
                    /\ UsageBy(r, a)[i].cached_tokens = 0
                    /\ UsageBy(r, a)[i].model_name = settings.active_model
        /\ ReturnedRun(r) =>
              LET rows == UsageOf(ticket[r].id)
              IN /\ Len(rows) = 2
                 /\ rows[1].agent_name = classifier
                 /\ rows[2].agent_name = outcome[r].handler_used

C15_TrackStep ==
    \A r \in Runs :
        (pc[r] = "track_usage" /\ token_usage' # token_usage) =>
            LET row == token_usage'[Len(token_usage')]
                model == llm_response[r].model
            IN /\ Len(token_usage') = Len(token_usage) + 1
               /\ row.ticket_id = ticket[r].id
               /\ row.agent_name = CurrentAgent(r)
               /\ row.input_tokens = llm_response[r].input_tokens
               /\ row.output_tokens = llm_response[r].output_tokens
               /\ (model \notin DOMAIN model_pricing
                   /\ model \notin DOMAIN pricing_cache) =>
                     /\ row.input_cost_usd = 0
                     /\ row.output_cost_usd = 0
               /\ (model \in DOMAIN model_pricing
                   /\ model \notin DOMAIN pricing_cache) =>
                     /\ row.input_cost_usd = model_pricing[model].input
                     /\ row.output_cost_usd = model_pricing[model].output

ClientStops ==
    /\ client.attempt_number <= 3
    /\ Len(client.answers) <= 3
    /\ client.contacts <= 3
    /\ \A i \in DOMAIN client.answers :
          client.answers[i] = "response" =>
              /\ i = Len(client.answers)
              /\ client.state = "returned"
    /\ client.state = "raised" => Len(client.answers) = 3
    /\ Len(client.answers) = 3 => client.state \in {"returned", "raised"}

\* C16 as stated: complete makes at most 3 attempts, returns the first
\* response without a further attempt, and after 3 failed attempts fails
\* with the provider error kind, LLMError.
C16_ThreeAttemptsThenLLMError ==
    /\ ClientStops
    /\ client.state = "raised" => client.result.kind = "LLMError"

\* C17 as stated: a non-recoverable error (no key, a rejected key, an
\* invalid request) ends complete on the first attempt: one request at
\* most, no second attempt, no backoff wait.
C17_NonRecoverableNotRetried ==
    (client.answers # << >> /\ client.answers[1] \in NonRecoverable) =>
        /\ client.state = "raised"
        /\ client.attempt_number = 1
        /\ Len(client.answers) = 1
        /\ client.contacts <= 1
        /\ client.waited = 0

\* What complete does with a rejected key: three requests, 1 s and 2 s of
\* backoff between them, then RetryError.
RejectedKeyIsRetried ==
    (settings.api_key = "sk-revoked" /\ client.state = "raised") =>
        /\ client.contacts = 3
        /\ client.waited = 3
        /\ client.result = RetryError

\* ----------------------------------------------------------------- C18
\* The coroutines that are at a statement, a fetch, a transaction body, a
\* commit or a rollback of the shared connection.
OnConnection ==
    { c \in Coroutines :
        connection.at[c] \in {"statement", "fetch", "body", "commit", "rollback"} }

Asked(c, what) == [who |-> c, what |-> what]

\* C18: at any moment at most one coroutine is at a statement, fetch,
\* commit or rollback of the shared connection, and it holds the lock; all
\* that the connection was asked since the lock was taken was asked by that
\* coroutine, so the commit of execute and execute_many comes right after
\* their own statement, and a fetch right after its own query.
C18_OneCoroutineOnConnection ==
    /\ Cardinality(OnConnection) <= 1
    /\ OnConnection # {} => connection.locked
    /\ \A c \in Coroutines :
          /\ connection.at[c] = "waiting"
                <=> \E i \in 1..Len(connection.waiters) : connection.waiters[i] = c
          /\ c \in OnConnection =>
                /\ \A i \in 1..Len(connection.since) : connection.since[i].who = c
                /\ connection.at[c] = "commit" /\ connection.op[c] \in Writes
                      => connection.since = << Asked(c, "statement") >>
                /\ connection.at[c] = "fetch"
                      => connection.since = << Asked(c, "statement") >>

\* A write has run its statement and is about to commit while two other
\* requests wait for the lock, after an earlier request left its statement
\* uncommitted.
C18_Witness ==
    \E c \in Coroutines :
        /\ connection.at[c] = "commit"
        /\ connection.op[c] = "execute"
        /\ Len(connection.waiters) = 2
        /\ connection.pending = 2

\* ----------------------------------------------------------------- C19
\* The row of each call's ticket is the last one that call wrote, and once
\* the call has returned it holds what that call computed.
C19_RowsNow ==
    \A r \in InFlight :
        /\ writes[r] = << >> => r \notin DOMAIN tickets
        /\ writes[r] # << >> =>
              /\ ticket[r].id = r
              /\ r \in DOMAIN tickets
              /\ tickets[r] = writes[r][Len(writes[r])]
              /\ tickets[r].customer_id = args[r].customer_id
              /\ tickets[r].customer_message = args[r].message
        /\ ReturnedRun(r) =>
              /\ tickets[r].category = classification[r].category
              /\ tickets[r].status =
                    final_status(handler_response[r].requires_escalation)
              /\ tickets[r].priority = handler_response[r].priority
              /\ tickets[r].agent_response = handler_response[r].response
              /\ tickets[r].handler_agent = handler[r]

\* A step changes no row but the one of the call that takes the step, and
\* that row is the ticket the call created.
C19_UpdateStep ==
    \A i \in DOMAIN tickets :
        /\ i \in DOMAIN tickets'
        /\ tickets'[i] # tickets[i] =>
              /\ pc'[i] # pc[i]
              /\ ticket'[i].id = i
              /\ \A j \in DOMAIN tickets : j # i => tickets'[j] = tickets[j]

\* C19: with several process_message calls in flight, every update of a
\* ticket row is issued by the call that created that ticket, so each row
\* holds the category, status, priority, response and handler computed by
\* its own call, in every interleaving of the calls.
C19_OwnTicketOnly == [](C19_RowsNow) /\ [][C19_UpdateStep]_vars

\* Two calls have returned with different categories and handlers, and their
\* audit entries are interleaved in the table.
C19_Witness ==
    /\ \A r \in {1, 2} : ReturnedRun(r)
    /\ tickets[1].category # tickets[2].category
    /\ tickets[1].handler_agent # tickets[2].handler_agent
    /\ tickets[1].priority # tickets[2].priority
    /\ \E i, j, k \in 1..Len(audit_logs) :
          /\ i < j /\ j < k
          /\ audit_logs[i].ticket_id = 1
          /\ audit_logs[j].ticket_id = 2
          /\ audit_logs[k].ticket_id = 1

\* ----------------------------------------------------------------- C20
\* The table new holds the rows of old, unchanged and in place, and
\* possibly more after them.
Extends(old, new) ==
    /\ Len(old) <= Len(new)
    /\ \A i \in 1..Len(old) : new[i] = old[i]

\* The usage row the response behind row would get at today's prices.
AtTodaysPrices(row) ==
    TokenUsage(row.ticket_id, row.agent_name,
               [model |-> row.model_name,
                input_tokens |-> row.input_tokens,
                output_tokens |-> row.output_tokens,
                cached_tokens |-> row.cached_tokens],
               model_pricing)

C20_AppendStep ==
    /\ Extends(audit_logs, audit_logs')
    /\ Extends(token_usage, token_usage')
    /\ \A id \in DOMAIN tickets :
          /\ Len(SelectSeq(audit_logs, LAMBDA e : e.ticket_id = id))
                <= Len(SelectSeq(audit_logs', LAMBDA e : e.ticket_id = id))
          /\ Len(SelectSeq(token_usage, LAMBDA u : u.ticket_id = id))
                <= Len(SelectSeq(token_usage', LAMBDA u : u.ticket_id = id))
          /\ get_total_cost_by_ticket(token_usage, id)
                <= get_total_cost_by_ticket(token_usage', id)
    /\ model_pricing' # model_pricing =>
          /\ audit_logs' = audit_logs
          /\ token_usage' = token_usage
          /\ \A id \in DOMAIN tickets :
                get_total_cost_by_ticket(token_usage', id)
                    = get_total_cost_by_ticket(token_usage, id)

\* C20: audit entries and usage rows are append-only: every step leaves
\* each existing row of audit_logs and token_usage as it is and in place, so
\* the rows of a ticket only grow; a change of a model's price changes no
\* usage row and no ticket's total cost.
C20_AppendOnly == [][C20_AppendStep]_vars

\* The price of gpt-4o-mini has been raised after a usage row of the ticket
\* was written: the row still carries its cost at the old price, which is
\* not what today's price would give.
C20_Witness ==
    /\ model_pricing["gpt-4o-mini"] # DEFAULT_MODEL_PRICING["gpt-4o-mini"]
    /\ \E i \in 1..Len(token_usage) :
          /\ token_usage[i].model_name = "gpt-4o-mini"
          /\ token_usage[i].input_cost_usd > 0
          /\ AtTodaysPrices(token_usage[i]) # token_usage[i]
          /\ get_total_cost_by_ticket(token_usage, token_usage[i].ticket_id)
                < get_total_cost_by_ticket(
                      << AtTodaysPrices(token_usage[i]) >>,
                      token_usage[i].ticket_id)

\* ----------------------------------------------------------------- C21
\* The direct lookups that have ended.
Ended(d) == direct[d].op = "get_ticket" /\ direct[d].at = "done"

\* No call is failing or has failed with TicketNotFoundError, and the row
\* of a call whose query handler has looked it up is there.
C21_RunsNow ==
    \A r \in Runs :
        /\ exc[r] # TicketNotFoundError
        /\ outcome[r].status = "raised" => outcome[r].error # TicketNotFoundError
        /\ HasEv(r, Ev("fetch", query_handler, "tickets"))
              => ticket[r].id \in DOMAIN tickets

\* A direct lookup ends: it raises TicketNotFoundError exactly when the id
\* is not in the table, and returns the row otherwise.
C21_LookupStep ==
    \A d \in Callers :
        ~Ended(d) /\ Ended(d)' =>
           /\ direct'[d].status = "raised" <=> direct'[d].id \notin DOMAIN tickets
           /\ direct'[d].status = "raised"
                 => direct'[d].error = TicketNotFoundError
           /\ direct'[d].status = "returned"
                 => direct'[d].ticket = from_dict(tickets[direct'[d].id])

\* C21: no process_message call fails with TicketNotFoundError: the query
\* handler's lookup always finds the row inserted at the start of the call,
\* and no step removes a row; TicketNotFoundError is raised only by a direct
\* lookup of an id that is not in the table.
C21_NotFoundOnlyDirect ==
    /\ [](C21_RunsNow)
    /\ [][C21_LookupStep /\ DOMAIN tickets \subseteq DOMAIN tickets']_vars

\* The query handler of a call has looked its ticket up and the call has
\* returned, while a direct lookup of another id has raised.
C21_Witness ==
    \E r \in Runs, d \in Callers :
        /\ ReturnedRun(r)
        /\ handler[r] = query_handler
        /\ Ended(d)
        /\ direct[d].status = "raised"

\* ------------------------------------------ the text columns of the audit
\* The texts themselves, character by character: what the audit rows of a
\* process_message call hold in input_summary, output_summary and
\* error_message.  The rows are inserted as log_action receives them
\* (the columns are TEXT, without a length limit).
SummaryLength == 200

MaxEntries == 6

RECURSIVE Repeat(_, _)
Repeat(text, n) == IF n = 0 THEN "" ELSE text \o Repeat(text, n - 1)

\* BaseAgent._truncate
_truncate(text, max_length) ==
    IF Len(text) <= max_length
    THEN text
    ELSE SubSeq(text, 1, max_length - 3) \o "..."

\* The customer's message: a short one, and one longer than a summary.
UserMessages == { "Where is my card?", Repeat("My card was charged twice. ", 9) }

\* The category the provider's JSON names: the three known ones, an unknown
\* word, and an unknown text longer than a summary (max_tokens is 1024).
CategoryStrings == { POSITIVE, NEGATIVE, QUERY, "spam", Repeat("unsure ", 40) }

\* The reply text of the provider: the classifier's JSON object around the
\* category, the handler's answer to the customer.
ClassifierContent(category_str) == "{\"category\": \"" \o category_str \o "\"}"

HandlerContents == { "We are sorry.", Repeat("We are very sorry. ", 12) }

\* str() of the exception complete raises after its attempts
RetryErrorText == "RetryError[<Future at 0x7f0c state=finished raised LLMError>]"

\* ClassifierAgent._parse_response on a JSON object with a string category:
\* the ClassificationError raised for an unknown category is caught by the
\* except Exception clause of the same try and wrapped once more.
invalid_category(category_str) ==
    "Classification failed: " \o ("Invalid category: " \o category_str)

\* The row AuditService.log_action inserts, its text columns as passed in
SummaryRow(agent_name, action, input_summary, output_summary, success, error) ==
    [agent_name |-> agent_name, action |-> action,
     input_summary |-> input_summary, output_summary |-> output_summary,
     success |-> success, error_message |-> error]

\* track_action's row for a call_llm that returned content
tracked(agent_name, action, user_message, content) ==
    SummaryRow(agent_name, action, _truncate(user_message, SummaryLength),
               _truncate(content, SummaryLength), TRUE, None)

\* track_action's row for a call_llm that raised: ActionTracker.set_error
failed(agent_name, action, user_message, error) ==
    SummaryRow(agent_name, action, _truncate(user_message, SummaryLength),
               "Error: " \o error, FALSE, error)

\* process_message, the except Exception clause
processing_failed(ticket_id, error) ==
    SummaryRow(orchestrator, RESPOND,
               "Processing message for ticket " \o ticket_id,
               "Processing failed", FALSE, error)

TicketUuid(d) == "7d9f2c1e-5a3b-4c8d-9e0f-1a2b3c4d5e6" \o ToString(d)

unlogged ==
    << tickets, token_usage, pc, args, ticket, classification, handler,
       handler_response, llm_response, tracker, exc, outcome, trace, writes,
       auditAtDraw, settings, model_pricing, pricing_cache, client,
       connection >>

Wrote(d, rows, frame) ==
    /\ audit_logs' = audit_logs \o rows
    /\ direct' = [direct EXCEPT ![d] = frame]
    /\ UNCHANGED unlogged

\* process_message is called; the ticket is created
SummariesStart(d) ==
    /\ \A e \in Callers : direct[e].at \in {"idle", "done"}
    /\ Len(audit_logs) < MaxEntries
    /\ \E message \in UserMessages :
         Wrote(d, << >>, [op |-> "process_message", at |-> "classify",
                          message |-> message, id |-> TicketUuid(d)])

\* ClassifierAgent.process: call_llm, _parse_response, log_action
SummariesClassify(d) ==
    /\ direct[d].at = "classify"
    /\ LET f == direct[d] IN
       \/ Wrote(d, << failed(classifier, CLASSIFY, f.message, RetryErrorText) >>,
                [f EXCEPT !.at = "except"] @@ [error |-> RetryErrorText])
       \/ \E category_str \in CategoryStrings :
            LET content == ClassifierContent(category_str) IN
            IF category_str \in MessageCategory
            THEN Wrote(d, << tracked(classifier, CLASSIFY, f.message, content),
                             SummaryRow(classifier, CLASSIFY,
                                        _truncate(f.message, SummaryLength),
                                        "category=" \o category_str, TRUE, None) >>,
                       [f EXCEPT !.at = "route"] @@ [category |-> category_str])
            ELSE Wrote(d, << tracked(classifier, CLASSIFY, f.message, content) >>,
                       [f EXCEPT !.at = "except"]
                           @@ [error |-> invalid_category(category_str)])

\* process_message: the routing entry
SummariesRoute(d) ==
    /\ direct[d].at = "route"
    /\ LET f == direct[d] IN
       Wrote(d, << SummaryRow(orchestrator, ROUTE, "category=" \o f.category,
                              "handler=" \o handlers[f.category], TRUE, None) >>,
             [f EXCEPT !.at = "respond"])

\* The handler's process: call_llm
SummariesRespond(d) ==
    /\ direct[d].at = "respond"
    /\ LET f == direct[d] IN
       \/ Wrote(d, << failed(handlers[f.category], RESPOND, f.message,
                             RetryErrorText) >>,
                [f EXCEPT !.at = "except"] @@ [error |-> RetryErrorText])
       \/ \E content \in HandlerContents :
            Wrote(d, << tracked(handlers[f.category], RESPOND, f.message,
                                content) >>,
                  [f EXCEPT !.at = "done"])

\* process_message: the except Exception clause
SummariesExcept(d) ==
    /\ direct[d].at = "except"
    /\ LET f == direct[d] IN
       Wrote(d, << processing_failed(f.id, f.error) >>, [f EXCEPT !.at = "done"])

\* One process_message call after the other.
NextSummaries ==
    \E d \in Callers :
        \/ SummariesStart(d)
        \/ SummariesClassify(d)
        \/ SummariesRoute(d)
        \/ SummariesRespond(d)
        \/ SummariesExcept(d)

SpecSummaries == Init /\ [][NextSummaries]_vars

\* C22: every audit entry's input summary, output summary and error text is
\* at most SummaryLength characters long, the entries of a failed model call
\* and of a failed process_message call included.
C22_SummariesBounded ==
    \A i \in 1..Len(audit_logs) :
        /\ Len(audit_logs[i].input_summary) <= SummaryLength
        /\ Len(audit_logs[i].output_summary) <= SummaryLength
        /\ audit_logs[i].error_message # None
               => Len(audit_logs[i].error_message) <= SummaryLength

\* --------------------------------------------- a ticket as a row and back
\* The values a metadata mapping may hold, as Python has them.
PyStr(text) == [py |-> "str", text |-> text]
PyInt(n) == [py |-> "int", n |-> n]
PyFloat(hundredths) == [py |-> "float", hundredths |-> hundredths]
PyList(elems) == [py |-> "list", elems |-> elems]
PyTuple(items) == [py |-> "tuple", items |-> items]
PyDict(map) == [py |-> "dict", map |-> map]

\* json.dumps: the JSON document of a value.  A tuple is written as an
\* array, a key that is a number is written as the string of its digits.
json_key(key) == IF key.py = "str" THEN key.text ELSE ToString(key.n)

RECURSIVE json_dumps(_)
json_dumps(v) ==
    CASE v.py = "str" -> [json |-> "string", text |-> v.text]
      [] v.py = "int" -> [json |-> "number", n |-> v.n]
      [] v.py = "float" -> [json |-> "number", hundredths |-> v.hundredths]
      [] v.py = "list" ->
            [json |-> "array",
             elems |-> [i \in DOMAIN v.elems |-> json_dumps(v.elems[i])]]
      [] v.py = "tuple" ->
            [json |-> "array",
             elems |-> [i \in DOMAIN v.items |-> json_dumps(v.items[i])]]
      [] v.py = "dict" ->
            [json |-> "object",
             members |-> [name \in { json_key(k) : k \in DOMAIN v.map } |->
                 json_dumps(v.map[CHOOSE k \in DOMAIN v.map : json_key(k) = name])]]

\* json.loads: an array becomes a list, an object a dict with str keys.
RECURSIVE json_loads(_)
json_loads(j) ==
    CASE j.json = "string" -> PyStr(j.text)
      [] j.json = "number" ->
            IF "n" \in DOMAIN j THEN PyInt(j.n) ELSE PyFloat(j.hundredths)
      [] j.json = "array" ->
            PyList([i \in DOMAIN j.elems |-> json_loads(j.elems[i])])
      [] j.json = "object" ->
            PyDict([k \in { PyStr(name) : name \in DOMAIN j.members } |->
                        json_loads(j.members[k.text])])

\* A member of one of the enumerations of utils/enums.py, and its .value
Member(enum, value) == [enum |-> enum, value |-> value]

\* The constructor call Enum(value): the member with this value
Enum(enum, values, value) ==
    IF value \in values THEN Member(enum, value) ELSE [enum |-> "ValueError"]

\* datetime.isoformat: the fraction is written unless microsecond is 0
isoformat_seconds(dt) == [seconds |-> dt.second, fraction |-> << >>]

isoformat(dt) ==
    [seconds |-> dt.second,
     fraction |-> IF dt.microsecond = 0 THEN << >> ELSE << dt.microsecond >>]

\* datetime.fromisoformat
fromisoformat(text) ==
    [second |-> text.seconds,
     microsecond |-> IF text.fraction = << >> THEN 0 ELSE text.fraction[1]]

\* An optional datetime: << >> is None.
Moment(second, microsecond) == [second |-> second, microsecond |-> microsecond]

\* Ticket.to_dict, all twelve columns
Ticket_to_dict(t) ==
    [id |-> t.id, customer_id |-> t.customer_id,
     customer_message |-> t.customer_message,
     category |-> t.category.value, status |-> t.status.value,
     priority |-> t.priority.value,
     agent_response |-> t.agent_response, handler_agent |-> t.handler_agent,
     metadata |-> << json_dumps(t.metadata) >>,
     created_at |-> isoformat(t.created_at),
     updated_at |-> isoformat(t.updated_at),
     resolved_at |-> IF t.resolved_at # << >>
                     THEN << isoformat(t.resolved_at[1]) >> ELSE << >>]

\* Ticket.from_dict
Ticket_from_dict(data) ==
    [id |-> data.id, customer_id |-> data.customer_id,
     customer_message |-> data.customer_message,
     category |-> Enum("MessageCategory", MessageCategory, data.category),
     status |-> Enum("TicketStatus", TicketStatus, data.status),
     priority |-> Enum("TicketPriority", TicketPriority, data.priority),
     agent_response |-> data.agent_response,
     handler_agent |-> data.handler_agent,
     metadata |-> IF data.metadata # << >> THEN json_loads(data.metadata[1])
                                           ELSE PyDict(EmptyMeta),
     created_at |-> fromisoformat(data.created_at),
     updated_at |-> fromisoformat(data.updated_at),
     resolved_at |-> IF data.resolved_at # << >>
                     THEN << fromisoformat(data.resolved_at[1]) >> ELSE << >>]

\* Metadata as the pipeline and a web front end put it on a ticket: str
\* keys, and values JSON has.
NativeMetadatas ==
    { PyDict(EmptyMeta),
      PyDict(PyStr("channel") :> PyStr("web")),
      PyDict((PyStr("classification_confidence") :> PyFloat(90))
                 @@ (PyStr("attempt") :> PyInt(2))),
      PyDict(PyStr("tags") :> PyList(<< PyStr("card"), PyStr("fee") >>)) }

\* Metadata a caller of create_ticket may pass as well (dict[str, Any]).
OtherMetadatas ==
    { PyDict(PyStr("tags") :> PyTuple(<< PyStr("card"), PyStr("fee") >>)),
      PyDict(PyInt(1) :> PyStr("first")) }

Metadatas == NativeMetadatas \cup OtherMetadatas

RoundTripCustomers == {"cust-1", "cust-2"}

\* Ticket(...) as TicketService.create_ticket builds it: the id and the two
\* timestamps come from the field defaults.
NewTicket(id, customer_id, category, priority, metadata, at) ==
    [id |-> id, customer_id |-> customer_id, customer_message |-> "hello",
     category |-> Member("MessageCategory", category),
     status |-> Member("TicketStatus", OPEN),
     priority |-> Member("TicketPriority", priority),
     agent_response |-> None, handler_agent |-> None,
     metadata |-> metadata, created_at |-> at, updated_at |-> at,
     resolved_at |-> << >>]

\* The tickets caller d may create: any customer and metadata; the category
\* and priority vary with the metadata, the clock with the customer.
NewTickets(d) ==
    { NewTicket(d, c, IF m \in NativeMetadatas THEN QUERY ELSE NEGATIVE,
                IF m = PyDict(EmptyMeta) THEN MEDIUM ELSE HIGH, m,
                Moment(d, IF c = "cust-1" THEN 0 ELSE 250000)) :
        c \in RoundTripCustomers, m \in Metadatas }

\* ORDER BY created_at DESC on the stored text
text_before(a, b) ==
    \/ a.seconds < b.seconds
    \/ /\ a.seconds = b.seconds
       /\ \/ a.fraction = << >> /\ b.fraction # << >>
          \/ a.fraction # << >> /\ b.fraction # << >>
                /\ a.fraction[1] < b.fraction[1]

\* The result lists of SELECT * FROM tickets WHERE ... ORDER BY created_at
\* DESC for the rows with these ids (rows of equal created_at in any order)
RECURSIVE Selected(_, _)
Selected(table, ids) ==
    IF ids = {} THEN { << >> }
    ELSE UNION { { << i >> \o rest : rest \in Selected(table, ids \ {i}) } :
                 i \in { k \in ids : \A j \in ids :
                     ~text_before(table[k].created_at, table[j].created_at) } }

unread ==
    << audit_logs, token_usage, pc, args, ticket, classification, handler,
       handler_response, llm_response, tracker, exc, outcome, trace, writes,
       auditAtDraw, settings, model_pricing, pricing_cache, client,
       connection >>

\* TicketRepository.create
RoundTripCreate(d) ==
    /\ direct[d].at = "idle"
    /\ \E t \in NewTickets(d) :
        /\ tickets' = (t.id :> Ticket_to_dict(t)) @@ tickets
        /\ direct' = [direct EXCEPT ![d] =
               [op |-> "create", at |-> "created", ticket |-> t]]
    /\ UNCHANGED unread

Created(d) == direct[d].at \in {"created", "read"}

Read(d, op, result) ==
    /\ direct' = [direct EXCEPT ![d] =
           [op |-> op, at |-> "read", ticket |-> direct[d].ticket,
            result |-> result]]
    /\ UNCHANGED << tickets, unread >>

\* TicketRepository.get_by_id of the ticket the caller created
RoundTripGetById(d) ==
    /\ Created(d)
    /\ Read(d, "get_by_id",
            << Ticket_from_dict(tickets[direct[d].ticket.id]) >>)

\* TicketRepository.get_by_customer
RoundTripGetByCustomer(d) ==
    /\ Created(d)
    /\ \E rows \in Selected(tickets, { i \in DOMAIN tickets :
            tickets[i].customer_id = direct[d].ticket.customer_id }) :
        Read(d, "get_by_customer",
             [i \in DOMAIN rows |-> Ticket_from_dict(tickets[rows[i]])])

\* TicketRepository.get_by_category
RoundTripGetByCategory(d) ==
    /\ Created(d)
    /\ \E rows \in Selected(tickets, { i \in DOMAIN tickets :
            tickets[i].category = direct[d].ticket.category.value }) :
        Read(d, "get_by_category",
             [i \in DOMAIN rows |-> Ticket_from_dict(tickets[rows[i]])])

NextRoundTrip ==
    \E d \in Callers :
        \/ RoundTripCreate(d)
        \/ RoundTripGetById(d)
        \/ RoundTripGetByCustomer(d)
        \/ RoundTripGetByCategory(d)

SpecRoundTrip == Init /\ [][NextRoundTrip]_vars

Among(t, result) == \E i \in DOMAIN result : result[i] = t

HasRead(d) == direct[d].at = "read"

\* The round trip of the ticket caller d created, as far as d has read it
RoundTrip(d) ==
    /\ direct[d].op = "get_by_id" => direct[d].result = << direct[d].ticket >>
    /\ direct[d].op \in {"get_by_customer", "get_by_category"}
           => Among(direct[d].ticket, direct[d].result)

\* C23 as stated: every ticket inserted by create and read by get_by_id
\* equals the inserted ticket field for field, and is among the results of
\* get_by_customer and get_by_category.
C23_RoundTripOfAnyTicket == \A d \in Callers : HasRead(d) => RoundTrip(d)

\* C23: a ticket whose metadata has str keys and values JSON has (strings,
\* numbers, lists and mappings of these), inserted by create and read by
\* get_by_id, equals the inserted ticket field for field, metadata and enum
\* members included, and is among the results of get_by_customer for its
\* customer and of get_by_category for its category.
C23_RoundTrip ==
    \A d \in Callers :
        HasRead(d) /\ direct[d].ticket.metadata \in NativeMetadatas
            => RoundTrip(d)

C23_Witness ==
    \E d, e \in Callers :
        /\ d # e
        /\ HasRead(d) /\ direct[d].op = "get_by_id"
        /\ direct[d].ticket.metadata \in NativeMetadatas
        /\ direct[d].ticket.metadata # PyDict(EmptyMeta)
        /\ direct[d].ticket.created_at.microsecond # 0
        /\ HasRead(e) /\ direct[e].op = "get_by_customer"
        /\ Len(direct[e].result) = 2

\* ------------------------------------------------------ the policy search
\* Texts are strings here, character by character.
UpperCase == "ABCDEFGHIJKLMNOPQRSTUVWXYZ"
LowerCase == "abcdefghijklmnopqrstuvwxyz"

CharAt(text, i) == SubSeq(text, i, i)

\* str.lower
RECURSIVE str_lower(_)
str_lower(text) ==
    IF text = "" THEN ""
    ELSE LET c == CharAt(text, 1)
             up == { i \in 1..Len(UpperCase) : CharAt(UpperCase, i) = c }
         IN (IF up = {} THEN c ELSE CharAt(LowerCase, CHOOSE i \in up : TRUE))
                \o str_lower(SubSeq(text, 2, Len(text)))

\* str.upper
RECURSIVE str_upper(_)
str_upper(text) ==
    IF text = "" THEN ""
    ELSE LET c == CharAt(text, 1)
             low == { i \in 1..Len(LowerCase) : CharAt(LowerCase, i) = c }
         IN (IF low = {} THEN c ELSE CharAt(UpperCase, CHOOSE i \in low : TRUE))
                \o str_upper(SubSeq(text, 2, Len(text)))

\* part in text
contains(text, part) ==
    \E i \in 1..(Len(text) - Len(part) + 1) :
        SubSeq(text, i, i + Len(part) - 1) = part

\* set(text.split()): the maximal runs without a blank
split(text) ==
    { SubSeq(text, run[1], run[2]) :
        run \in { r \in (1..Len(text)) \X (1..Len(text)) :
            /\ r[1] <= r[2]
            /\ ~contains(SubSeq(text, r[1], r[2]), " ")
            /\ r[1] = 1 \/ CharAt(text, r[1] - 1) = " "
            /\ r[2] = Len(text) \/ CharAt(text, r[2] + 1) = " " } }

\* A policy id POLICY-0nn is written as the number nn: the ids of the table
\* have three digits, so sorted() on the id strings is the order of numbers.
Policy(id, title, content) == [id |-> id, title |-> title, content |-> content]

\* PolicyService.KEYWORD_MAPPINGS
KEYWORD_MAPPINGS ==
    << << "card replacement", {1} >>, << "new card", {1} >>,
       << "replace card", {1} >>, << "lost card", {2} >>,
       << "stolen card", {2} >>, << "card stolen", {2} >>,
       << "dispute", {3} >>, << "disputed charge", {3} >>,
       << "unauthorized charge", {3} >>, << "chargeback", {3} >>,
       << "atm limit", {4} >>, << "withdrawal limit", {4} >>,
       << "transaction limit", {4} >>, << "spending limit", {4} >>,
       << "maintenance fee", {5, 6} >>, << "monthly fee", {5, 6} >>,
       << "waive fee", {6} >>, << "fee waiver", {6} >>,
       << "overdraft", {7} >>, << "nsf", {7} >>,
       << "insufficient funds", {7} >>, << "close account", {8} >>,
       << "account closure", {8} >>, << "wire transfer", {9} >>,
       << "wire", {9} >>, << "international transfer", {9} >>,
       << "ach", {10} >>, << "transfer time", {10} >>,
       << "bill pay", {11} >>, << "late payment", {11} >>,
       << "interest rate", {12} >>, << "savings rate", {12} >>,
       << "cd", {13} >>, << "certificate of deposit", {13} >>,
       << "early withdrawal", {13} >>, << "fraud", {14, 2} >>,
       << "fraudulent", {14} >>, << "unauthorized", {14, 2, 3} >>,
       << "locked out", {15} >>, << "account locked", {15} >>,
       << "login", {15} >>, << "two factor", {16} >>, << "2fa", {16} >>,
       << "verification", {16} >>, << "complaint", {17} >>,
       << "response time", {17} >>, << "branch hours", {18} >>,
       << "hours", {18} >>, << "statement", {19} >>,
       << "bank statement", {19} >>, << "power of attorney", {20} >>,
       << "poa", {20} >> >>

\* Policies as _load_policies reads them from the policy file.
KnowledgeBase ==
    { Policy(2, "Lost or Stolen Cards", "Report a lost card at once."),
      Policy(3, "Disputed Charges", "Disputes are filed within 60 days."),
      Policy(9, "Wire Transfers", "Outgoing transfers cost 25 dollars."),
      Policy(14, "Fraud Protection", "Fraud claims are reviewed daily."),
      Policy(18, "Branch Hours", "Every branch opens at 9."),
      Policy(19, "Statements", "Statements are issued monthly.") }

\* self.policies: everything the file holds, the file without POLICY-002,
\* and nothing (the file is missing: _load_policies returns early).
LoadedPolicies ==
    { KnowledgeBase, { p \in KnowledgeBase : p.id # 2 }, {} }

SearchMessages ==
    { "", "I lost my card", "What are your branch hours?",
      "unauthorized fraud wire", "Are transfers abroad free?",
      "unauthorized fraud transfers",
      "FRAUD on my statement", "hello there" }

MaxResults == 3

\* The ids the keyword table gives for the message
keyword_matches(message_lowered) ==
    UNION { KEYWORD_MAPPINGS[i][2] : i \in { k \in DOMAIN KEYWORD_MAPPINGS :
                contains(message_lowered, KEYWORD_MAPPINGS[k][1]) } }

\* The content-based search: a word of the message longer than 4 characters
\* occurs in the policy's content, and the message shares a word with the
\* policy's title.
content_matches(message_lowered, policies) ==
    { p.id : p \in { q \in policies :
        /\ \E word \in split(message_lowered) :
              Len(word) > 4 /\ contains(str_lower(q.content), word)
        /\ split(message_lowered) \cap split(str_lower(q.title)) # {} } }

sorted_descending(ids) ==
    CHOOSE s \in [1..Cardinality(ids) -> ids] :
        \A i, j \in 1..Cardinality(ids) : i < j => s[i] > s[j]

\* sorted(found_policy_ids)
sorted(ids) ==
    CHOOSE s \in [1..Cardinality(ids) -> ids] :
        \A i, j \in 1..Cardinality(ids) : i < j => s[i] < s[j]

\* list[:stop]
slice(list, stop) ==
    IF stop >= 0 THEN SubSeq(list, 1, Min(stop, Len(list)))
                 ELSE SubSeq(list, 1, Max(Len(list) + stop, 0))

\* PolicyService.search_policies: the ids of the policies returned, in order
search_policies(policies, message, max_results) ==
    LET message_lowered == str_lower(message)
        found_policy_ids == keyword_matches(message_lowered)
                              \cup content_matches(message_lowered, policies)
    IN slice(sorted({ pid \in found_policy_ids :
                         pid \in { p.id : p \in policies } }), max_results)

unsearched ==
    << tickets, audit_logs, token_usage, pc, args, ticket, classification,
       handler, handler_response, llm_response, tracker, exc, outcome, trace,
       writes, auditAtDraw, settings, model_pricing, pricing_cache, client,
       connection >>

\* A handler (or any caller) calls search_policies of a loaded service
SearchCall(d) ==
    /\ \A e \in Callers : direct[e].at = "idle"
    /\ \E policies \in LoadedPolicies, message \in SearchMessages,
          max_results \in -1..MaxResults :
         direct' = [direct EXCEPT ![d] =
             [op |-> "search_policies", at |-> "called",
              policies |-> policies, message |-> message,
              max_results |-> max_results]]
    /\ UNCHANGED unsearched

SearchPolicies(d) ==
    /\ direct[d].at = "called"
    /\ direct' = [direct EXCEPT ![d] =
           [@ EXCEPT !.at = "done"] @@
           [result |-> search_policies(@.policies, @.message, @.max_results)]]
    /\ UNCHANGED unsearched

SearchReturn(d) ==
    /\ direct[d].at = "done"
    /\ direct' = [direct EXCEPT ![d] = NoDirect]
    /\ UNCHANGED unsearched

NextPolicies ==
    \E d \in Callers : SearchCall(d) \/ SearchPolicies(d) \/ SearchReturn(d)

SpecPolicies == Init /\ [][NextPolicies]_vars

Searched(d) == direct[d].op = "search_policies" /\ direct[d].at = "done"

LoadedIds(d) == { p.id : p \in direct[d].policies }

\* The union of the keyword-table matches and the secondary matches
Matched(d) ==
    keyword_matches(str_lower(direct[d].message))
        \cup content_matches(str_lower(direct[d].message), direct[d].policies)

Ascending(result) ==
    \A i, j \in DOMAIN result : i < j => result[i] < result[j]

Returned(result) == { result[i] : i \in DOMAIN result }

\* The result is the first `most` of the ids `among`, in id order.
FirstOf(result, among, most) ==
    /\ Ascending(result)
    /\ Returned(result) \subseteq among
    /\ Len(result) <= most
    /\ \A id \in among \ Returned(result) :
          Cardinality({ r \in Returned(result) : r < id }) >= most

\* C24 as stated: the result has no duplicate, is strictly ascending, at most
\* max_results long, holds loaded policies only, and is the first max_results
\* ids of the union of the keyword matches and the secondary matches.
C24_FirstOfAllMatches ==
    \A d \in Callers :
        Searched(d) =>
            /\ Returned(direct[d].result) \subseteq LoadedIds(d)
            /\ FirstOf(direct[d].result, Matched(d), direct[d].max_results)

\* C24: for max_results >= 0 the result has no duplicate, is strictly
\* ascending, at most max_results long, and is the first max_results ids of
\* the loaded policies among the union of the keyword matches and the
\* secondary matches: a matched policy is dropped only when it is not loaded
\* or max_results loaded matched policies with smaller ids exist.
C24_FirstOfLoadedMatches ==
    \A d \in Callers :
        Searched(d) /\ direct[d].max_results >= 0 =>
            FirstOf(direct[d].result, Matched(d) \cap LoadedIds(d),
                    direct[d].max_results)

C24_Witness ==
    \E d \in Callers :
        /\ Searched(d)
        /\ direct[d].max_results = MaxResults
        /\ Len(direct[d].result) = MaxResults
        /\ Cardinality(Matched(d) \cap LoadedIds(d)) > MaxResults
        /\ content_matches(str_lower(direct[d].message), direct[d].policies)
               \ keyword_matches(str_lower(direct[d].message)) # {}

\* --------------------------------------- the query handler's history block
HistoryLimit == 5

MaxStored == 7

MaxSameClock == 2

\* history = [t for t in previous_tickets if t.id != ticket.id][:5], with the
\* slice taken before the filter
history_of_slices_first(previous_tickets, t) ==
    SelectSeq(slice(previous_tickets, HistoryLimit), LAMBDA p : p.id # t.id)

\* history = [t for t in previous_tickets if t.id != ticket.id][:5]
history_of(previous_tickets, t) ==
    slice(SelectSeq(previous_tickets, LAMBDA p : p.id # t.id), HistoryLimit)

\* customer_message[:100]
_truncate_head(text) == SubSeq(text, 1, Min(Len(text), 100))

\* One line of the block, of the ticket's category, message and status
context_line(prev_ticket) ==
    "- [" \o str_upper(prev_ticket.category.value) \o "] "
         \o _truncate_head(prev_ticket.customer_message) \o "..."
         \o " (Status: " \o prev_ticket.status.value \o ")"

\* QueryHandler._get_customer_context once get_by_customer has returned:
\* the block as its list of lines; no line is the empty string returned.
_get_customer_context(previous_tickets, t) ==
    LET history == history_of(previous_tickets, t) IN
    IF history = << >> THEN << >>
    ELSE << "[Previous interactions with this customer:]" >>
            \o [i \in DOMAIN history |-> context_line(history[i])]

\* datetime.utcnow() at the next Ticket(...): the clock of the last ticket
\* created, or later.
Latest(table) ==
    CHOOSE k \in DOMAIN table : \A j \in DOMAIN table :
        ~text_before(table[k].created_at, table[j].created_at)

Clock(table) ==
    IF DOMAIN table = {} THEN { Moment(0, 0) }
    ELSE LET last == fromisoformat(table[Latest(table)].created_at) IN
         { at \in { last, IF last.microsecond = 0
                          THEN Moment(last.second, 500000)
                          ELSE Moment(last.second + 1, 0) } :
             Cardinality({ k \in DOMAIN table :
                 table[k].created_at = isoformat(at) }) < MaxSameClock }

\* TicketService.create_ticket of some customer, no other call in progress
HistoryCreate(d) ==
    /\ \A e \in Callers : direct[e].at = "idle"
    /\ Cardinality(DOMAIN tickets) < MaxStored
    /\ \E c \in RoundTripCustomers, at \in Clock(tickets) :
         tickets' = ((Cardinality(DOMAIN tickets) + 1) :>
                        Ticket_to_dict(NewTicket(Cardinality(DOMAIN tickets) + 1,
                            c, QUERY, MEDIUM, PyDict(EmptyMeta), at)))
                    @@ tickets
    /\ UNCHANGED << direct, unread >>

\* QueryHandler.process of a stored ticket, as far as the history block:
\* get_by_id, then _get_customer_context with its get_by_customer
HistoryContext(d) ==
    /\ \A e \in Callers : direct[e].at = "idle"
    /\ \E id \in DOMAIN tickets :
        LET t == Ticket_from_dict(tickets[id]) IN
        \E rows \in Selected(tickets, { i \in DOMAIN tickets :
                        tickets[i].customer_id = t.customer_id }) :
            LET previous_tickets ==
                    [i \in DOMAIN rows |-> Ticket_from_dict(tickets[rows[i]])]
            IN direct' = [direct EXCEPT ![d] =
                   [op |-> "_get_customer_context", at |-> "done",
                    ticket |-> t,
                    history |-> history_of(previous_tickets, t),
                    context |-> _get_customer_context(previous_tickets, t)]]
    /\ UNCHANGED << tickets, unread >>

HistoryReturn(d) ==
    /\ direct[d].op = "_get_customer_context"
    /\ direct[d].at = "done"
    /\ direct' = [direct EXCEPT ![d] = NoDirect]
    /\ UNCHANGED << tickets, unread >>

NextHistory ==
    \E d \in Callers : HistoryCreate(d) \/ HistoryContext(d) \/ HistoryReturn(d)

SpecHistory == Init /\ [][NextHistory]_vars

HasContext(d) == direct[d].op = "_get_customer_context" /\ direct[d].at = "done"

\* The other tickets of the customer of d's ticket, as stored
Others(d) ==
    { i \in DOMAIN tickets :
        /\ tickets[i].customer_id = direct[d].ticket.customer_id
        /\ i # direct[d].ticket.id }

Listed(d) == { direct[d].history[i].id : i \in DOMAIN direct[d].history }

CreatedBefore(i, j) ==
    LET a == fromisoformat(tickets[i].created_at)
        b == fromisoformat(tickets[j].created_at)
    IN a.second < b.second
          \/ (a.second = b.second /\ a.microsecond < b.microsecond)

\* C25: the history block lists only other tickets of the same customer, at
\* most 5, no ticket left out was created after a listed one, as many as
\* there are up to 5, one line each; the block is there exactly when the
\* customer has another ticket in the store.
C25_HistoryBlock ==
    \A d \in Callers :
        HasContext(d) =>
            /\ Listed(d) \subseteq Others(d)
            /\ Len(direct[d].history) = Cardinality(Listed(d))
            /\ Len(direct[d].history) = Min(HistoryLimit, Cardinality(Others(d)))
            /\ \A i \in Listed(d), j \in Others(d) \ Listed(d) :
                  ~CreatedBefore(i, j)
            /\ direct[d].context # << >> <=> Others(d) # {}
            /\ direct[d].context # << >>
                  => Len(direct[d].context) = Len(direct[d].history) + 1

C25_Witness ==
    \E d \in Callers :
        /\ HasContext(d)
        /\ Cardinality(Others(d)) > HistoryLimit
        /\ Len(direct[d].history) = HistoryLimit
        /\ \E i \in Listed(d) : CreatedBefore(direct[d].ticket.id, i)

\* C26: in the store the response, the handler's name and the final status
\* of a ticket change together: the row is either open with agent_response
\* and handler_agent unset, or resolved or escalated with both set.
C26_ResponseWithStatus ==
    \A id \in DOMAIN tickets :
        \/ /\ tickets[id].status = OPEN
           /\ tickets[id].agent_response = None
           /\ tickets[id].handler_agent = None
        \/ /\ tickets[id].status \in {RESOLVED, ESCALATED}
           /\ tickets[id].agent_response # None
           /\ tickets[id].handler_agent # None

\* The handler has answered, its usage row and its audit entry are written,
\* and the call has ended without the final update.
C26_Witness ==
    \E r \in Runs :
        /\ FailedRun(r)
        /\ ticket[r].agent_response # None
        /\ \E i \in DOMAIN token_usage :
              /\ token_usage[i].ticket_id = ticket[r].id
              /\ token_usage[i].agent_name = handler[r]
        /\ \E i \in DOMAIN audit_logs :
              /\ audit_logs[i].ticket_id = ticket[r].id
              /\ audit_logs[i].agent_name = handler[r]
              /\ audit_logs[i].action = RESPOND
              /\ audit_logs[i].success
        /\ tickets[ticket[r].id].status = OPEN
        /\ tickets[ticket[r].id].agent_response = None

\* The direct call of d has returned its ticket to the caller
Succeeded(d, op) ==
    /\ direct[d].op = op
    /\ direct[d].at = "done"
    /\ direct[d].status = "returned"

\* C27: when escalate_ticket and set_response (or resolve_ticket with a
\* response) have both returned for the same ticket, the row holds both
\* changes: the escalation reason in the metadata and the response text.
C27_BothChangesKept ==
    \A d, e \in Callers :
        /\ d # e
        /\ Succeeded(d, "escalate_ticket")
        /\ Succeeded(e, "set_response") \/ Succeeded(e, "resolve")
        /\ direct[d].id = direct[e].id
        => /\ "escalation_reason" \in DOMAIN tickets[direct[d].id].metadata
           /\ tickets[direct[d].id].agent_response = direct[e].ticket.agent_response

\* C28: total_cost_usd is a key of the returned ticket only: no stored row
\* has it in its metadata, no ticket read back by get_ticket has it, the
\* ticket object of a call has it only once the call has returned (after its
\* last update), and the ticket of every returned result has it.
C28_CostKeyInMemoryOnly ==
    /\ \A id \in DOMAIN tickets :
          "total_cost_usd" \notin DOMAIN tickets[id].metadata
    /\ \A d \in Callers :
          Ended(d) /\ direct[d].status = "returned"
              => "total_cost_usd" \notin DOMAIN direct[d].ticket.metadata
    /\ \A r \in Runs :
          /\ ticket[r] # NoTicket /\ "total_cost_usd" \in DOMAIN ticket[r].metadata
                => ReturnedRun(r)
          /\ ReturnedRun(r)
                => "total_cost_usd" \in DOMAIN outcome[r].ticket.metadata

C28_Witness ==
    \E r \in Runs, d \in Callers :
        /\ ReturnedRun(r)
        /\ Ended(d) /\ direct[d].status = "returned"
        /\ direct[d].id = outcome[r].ticket.id
        /\ outcome[r].ticket.metadata["total_cost_usd"] > 0
        /\ direct[d].ticket.status = outcome[r].ticket.status

\* The run's ticket object never has resolved_at, nor has the ticket of its
\* result, which is resolved or escalated.
C29_RunNow ==
    \A r \in Runs :
        /\ ticket[r] # NoTicket => ticket[r].resolved_at = None
        /\ ReturnedRun(r) =>
              /\ outcome[r].ticket.resolved_at = None
              /\ outcome[r].ticket.status \in {RESOLVED, ESCALATED}

\* Of the direct operations only TicketRepository.resolve changes the
\* resolved_at of the ticket it has read; a row's resolved_at is written by
\* the update of a direct operation, from its ticket, never by
\* process_message, whose final update leaves the row resolved or escalated
\* with resolved_at unset.
C29_SetStep ==
    /\ \A d \in Callers :
          direct[d].at = "idle" /\ direct'[d].at = "update"
              /\ direct'[d].ticket.resolved_at # tickets[direct'[d].id].resolved_at
          => direct'[d].op = "resolve"
    /\ \A id \in DOMAIN tickets :
          tickets'[id].resolved_at # tickets[id].resolved_at
              /\ tickets'[id].resolved_at # None
          => \E d \in Callers :
                /\ direct[d].at = "update" /\ direct'[d].at = "done"
                /\ direct[d].id = id
                /\ tickets'[id].resolved_at = direct[d].ticket.resolved_at
    /\ \A r \in Runs :
          pc[r] = "update_final" /\ pc'[r] = "get_cost"
          => /\ tickets'[ticket[r].id].resolved_at = None
             /\ tickets'[ticket[r].id].status \in {RESOLVED, ESCALATED}

\* C29: process_message never sets resolved_at, in the store or in its
\* result; only TicketRepository.resolve sets it.
C29_OnlyResolveSetsResolvedAt ==
    [](C29_RunNow) /\ [][C29_SetStep /\ DOMAIN tickets \subseteq DOMAIN tickets']_vars

C29_Witness ==
    \E r \in Runs :
        /\ ReturnedRun(r)
        /\ outcome[r].ticket.status = ESCALATED
        /\ tickets[outcome[r].ticket.id].resolved_at = Now
        /\ tickets[outcome[r].ticket.id].status = RESOLVED

\* The coroutine is inside `async with self._lock`.
Holding == {"statement", "fetch", "body", "commit", "rollback"}

\* When coroutines wait for the lock, the lock is held by a coroutine that
\* is inside an operation, or it is free and the first waiter resumes; only
\* coroutines that wait are queued, each once.
C30_NoDeadlock ==
    /\ connection.waiters # << >> =>
          \/ connection.locked /\ \E c \in Coroutines : connection.at[c] \in Holding
          \/ ~connection.locked /\ ENABLED ConnResume(Head(connection.waiters))
    /\ \A c \in Coroutines :
          connection.at[c] = "waiting"
              <=> \E i \in DOMAIN connection.waiters : connection.waiters[i] = c
    /\ \A c \in Coroutines :
          connection.at[c] \in Holding => connection.locked

\* A coroutine that leaves an operation, by its return or by an exception of
\* the statement, the commit or the rollback, leaves the lock free.
C30_ReleaseStep ==
    \A c \in Coroutines :
        connection.at[c] \in Holding /\ connection'.at[c] = "idle"
            => ~connection'.locked

\* C30: the lock is released on every exit path of every operation and no
\* operation asks for it while holding it, so no deadlock is reachable and
\* every operation that waits for the lock gets it.
C30_LockLive ==
    /\ [](C30_NoDeadlock)
    /\ [][C30_ReleaseStep]_vars
    /\ \A c \in Coroutines :
          (connection.at[c] = "waiting") ~> (connection.at[c] \in Holding)

C30_Witness ==
    \E c, h \in Coroutines :
        /\ Len(connection.waiters) = 2
        /\ connection.waiters[2] = c
        /\ connection.at[h] = "rollback"
        /\ connection.pending > 0

====
